---- MODULE Spec2Model ----
(***************************************************************************)
(* A model of the HTTP/1.1 connection protocol engine of                   *)
(* src/src/nxt_h1proto.c.                                                  *)
(*                                                                         *)
(* One connection is modelled.  The state is the connection object c, its  *)
(* protocol object h1p, the live requests, the buffers allocated so far,   *)
(* the engine's fast work queue and the bytes the peer has sent.  A byte   *)
(* is named by its offset in the stream the peer sends, so that copies and *)
(* moves of buffer contents can be followed.                               *)
(*                                                                         *)
(* A handler of the source is an operator from a state to the SET of its   *)
(* outcomes: the choices inside a handler (an allocation that fails, what  *)
(* the header tokenizer returns, what the request carries) are the members *)
(* of that set.  An outcome is the state the handler leaves and the        *)
(* handler it ends by calling, if any; the calls are followed to the end   *)
(* within one step, so one action of the model is one reactor event with   *)
(* every handler the event runs before control returns to the reactor.     *)
(* The variable log holds the debug lines of the last event.               *)
(*                                                                         *)
(* The configuration values of src/src/nxt_conf_json.c are modelled next   *)
(* to it: the variable json holds one text with what the parser and the    *)
(* printer make of it.  Texts are sequences of bytes, integers have the    *)
(* 64 bits of the source.                                                  *)
(***************************************************************************)
EXTENDS Integers, Sequences, FiniteSets, TLC

VARIABLES conf, c, h1p, reqs, bufs, wq, cli_sent, rcvd, nreq, log, json

vars == <<conf, c, h1p, reqs, bufs, wq, cli_sent, rcvd, nreq, log, json>>

(***************************************************************************)
(* Bounds of the model.                                                    *)
(***************************************************************************)
\* largest header_buffer_size tried
MaxHeaderBufferSize == 2
\* largest large_header_buffer_size tried
MaxLargeHeaderBufferSize == 2
\* largest large_header_buffers tried
MaxLargeHeaderBuffers == 2
\* largest max_body_size tried
MaxBodySize == 1
\* largest Content-Length a request announces
MaxContentLength == 2
\* bytes the peer sends on the connection
MaxStream == 2
\* largest data buffer the application sends
MaxData == 1

NULL == 0

\* No configuration text is at hand.
NoJson == [phase |-> "none"]

(***************************************************************************)
(* Values.                                                                 *)
(***************************************************************************)
SocketConfs ==
    [header_buffer_size : 1..MaxHeaderBufferSize,
     large_header_buffer_size : 1..MaxLargeHeaderBufferSize,
     large_header_buffers : 0..MaxLargeHeaderBuffers,
     max_body_size : 1..MaxBodySize]

\* nxt_http_request_parse_t as far as the engine reads it: the minor digit
\* of the version, and how many header bytes of this request are consumed.
ZeroParser == [consumed |-> 0, minor |-> ""]

\* nxt_h1proto_t after nxt_mp_zget, the fields before conn.
ZeroH1p ==
    [parser |-> ZeroParser, nbuffers |-> 0, keepalive |-> FALSE,
     chunked |-> FALSE, transfer_encoding |-> "NONE",
     request |-> NULL, buffers |-> <<>>]

\* nxt_buf_t of nxt_buf_mem_alloc: mem.start = 0, mem.end = size; data is
\* the content of [pos, free).  pool is 0 for the connection's pool and the
\* request's id for a request's pool.
NewBuf(size, pool) ==
    [size |-> size, pos |-> 0, free |-> 0, data |-> <<>>,
     pool |-> pool, freed |-> FALSE]

nxt_buf_mem_used_size(b) == b.free - b.pos

nxt_buf_mem_free_size(b) == b.size - b.free

Log(s, m) == [s EXCEPT !.log = Append(@, m)]

SeqSum(q) ==
    LET RECURSIVE sum(_)
        sum(i) == IF i = 0 THEN 0 ELSE q[i] + sum(i - 1)
    IN  sum(Len(q))

Min(a, b) == IF a < b THEN a ELSE b


(***************************************************************************)
(* The connection interface (nxt_conn.h), outside this file: an operation  *)
(* is registered on the connection and the reactor calls the handler of    *)
(* the connection's state when it completes.                               *)
(***************************************************************************)
\* nxt_conn_wait: wait until the socket is readable.
nxt_conn_wait(s) == [s EXCEPT !.c.rd = "wait"]

\* nxt_conn_read: read into c->read.
nxt_conn_read(s) == [s EXCEPT !.c.rd = "read"]

\* nxt_conn_write: write the chain c->write.
nxt_conn_write(s) == [s EXCEPT !.c.wr = TRUE]

\* nxt_conn_close: the socket is closed and no event is delivered any more.
nxt_conn_close(s) == [s EXCEPT !.c.fd = -1, !.c.rd = "none", !.c.wr = FALSE]

\* c->socket.read_ready: bytes of the peer are waiting in the socket.
read_ready(s) == s.cli_sent > s.rcvd

\* A dereference of a null pointer ends the process.
Crash(s) ==
    [Log(s, "null dereference") EXCEPT
        !.c.fd = -1, !.c.rd = "none", !.c.wr = FALSE, !.wq = <<>>]

(***************************************************************************)
(* Response status lines.                                                  *)
(***************************************************************************)
NXT_HTTP_OK == 200
NXT_HTTP_MULTIPLE_CHOICES == 300
NXT_HTTP_BAD_REQUEST == 400
NXT_HTTP_LENGTH_REQUIRED == 411
NXT_HTTP_PAYLOAD_TOO_LARGE == 413
NXT_HTTP_REQUEST_HEADER_FIELDS_TOO_LARGE == 431
NXT_HTTP_INTERNAL_SERVER_ERROR == 500
NXT_HTTP_NOT_IMPLEMENTED == 501
NXT_HTTP_VERSION_NOT_SUPPORTED == 505

nxt_http_success ==
    << "HTTP/1.1 200 OK\r\n",
       "HTTP/1.1 201 Created\r\n",
       "HTTP/1.1 202 Accepted\r\n",
       "HTTP/1.1 203 Non-Authoritative Information\r\n",
       "HTTP/1.1 204 No Content\r\n",
       "HTTP/1.1 205 Reset Content\r\n",
       "HTTP/1.1 206 Partial Content\r\n" >>

nxt_http_redirection ==
    << "HTTP/1.1 300 Multiple Choices\r\n",
       "HTTP/1.1 301 Moved Permanently\r\n",
       "HTTP/1.1 302 Found\r\n",
       "HTTP/1.1 303 See Other\r\n",
       "HTTP/1.1 304 Not Modified\r\n" >>

nxt_http_client_error ==
    << "HTTP/1.1 400 Bad Request\r\n",
       "HTTP/1.1 401 Unauthorized\r\n",
       "HTTP/1.1 402 Payment Required\r\n",
       "HTTP/1.1 403 Forbidden\r\n",
       "HTTP/1.1 404 Not Found\r\n",
       "HTTP/1.1 405 Method Not Allowed\r\n",
       "HTTP/1.1 406 Not Acceptable\r\n",
       "HTTP/1.1 407 Proxy Authentication Required\r\n",
       "HTTP/1.1 408 Request Timeout\r\n",
       "HTTP/1.1 409 Conflict\r\n",
       "HTTP/1.1 410 Gone\r\n",
       "HTTP/1.1 411 Length Required\r\n",
       "HTTP/1.1 412 Precondition Failed\r\n",
       "HTTP/1.1 413 Payload Too Large\r\n",
       "HTTP/1.1 414 URI Too Long\r\n",
       "HTTP/1.1 415 Unsupported Media Type\r\n",
       "HTTP/1.1 416 Range Not Satisfiable\r\n",
       "HTTP/1.1 417 Expectation Failed\r\n",
       "HTTP/1.1 418\r\n",
       "HTTP/1.1 419\r\n",
       "HTTP/1.1 420\r\n",
       "HTTP/1.1 421\r\n",
       "HTTP/1.1 422\r\n",
       "HTTP/1.1 423\r\n",
       "HTTP/1.1 424\r\n",
       "HTTP/1.1 425\r\n",
       "HTTP/1.1 426\r\n",
       "HTTP/1.1 427\r\n",
       "HTTP/1.1 428\r\n",
       "HTTP/1.1 429\r\n",
       "HTTP/1.1 430\r\n",
       "HTTP/1.1 431 Request Header Fields Too Large\r\n" >>

nxt_http_server_error ==
    << "HTTP/1.1 500 Internal Server Error\r\n",
       "HTTP/1.1 501 Not Implemented\r\n",
       "HTTP/1.1 502 Bad Gateway\r\n",
       "HTTP/1.1 503 Service Unavailable\r\n",
       "HTTP/1.1 504 Gateway Timeout\r\n",
       "HTTP/1.1 505 HTTP Version Not Supported\r\n" >>

NXT_HTTP_LAST_SUCCESS == NXT_HTTP_OK + Len(nxt_http_success) - 1

NXT_HTTP_LAST_REDIRECTION ==
    NXT_HTTP_MULTIPLE_CHOICES + Len(nxt_http_redirection) - 1

NXT_HTTP_LAST_CLIENT_ERROR ==
    NXT_HTTP_BAD_REQUEST + Len(nxt_http_client_error) - 1

NXT_HTTP_LAST_SERVER_ERROR ==
    NXT_HTTP_INTERNAL_SERVER_ERROR + Len(nxt_http_server_error) - 1

\* nxt_sprintf("%03d"): decimal, padded with zeros to three digits.
Sprintf03d(n) ==
    IF n < 10 THEN "00" \o ToString(n)
    ELSE IF n < 100 THEN "0" \o ToString(n)
    ELSE ToString(n)

\* The status line of nxt_h1p_request_header_send.
StatusLine(n) ==
    IF n >= NXT_HTTP_OK /\ n <= NXT_HTTP_LAST_SUCCESS
    THEN nxt_http_success[n - NXT_HTTP_OK + 1]
    ELSE IF n >= NXT_HTTP_MULTIPLE_CHOICES /\ n <= NXT_HTTP_LAST_REDIRECTION
    THEN nxt_http_redirection[n - NXT_HTTP_MULTIPLE_CHOICES + 1]
    ELSE IF n >= NXT_HTTP_BAD_REQUEST /\ n <= NXT_HTTP_LAST_CLIENT_ERROR
    THEN nxt_http_client_error[n - NXT_HTTP_BAD_REQUEST + 1]
    ELSE IF n >= NXT_HTTP_INTERNAL_SERVER_ERROR
            /\ n <= NXT_HTTP_LAST_SERVER_ERROR
    THEN nxt_http_server_error[n - NXT_HTTP_INTERNAL_SERVER_ERROR + 1]
    ELSE "HTTP/1.1 " \o Sprintf03d(n) \o "\r\n"

chunked_line == "Transfer-Encoding: chunked\r\n"

\* connection[conn] of nxt_h1p_request_header_send, conn = 0 or 1.
connection == << "Connection: close\r\n", "Connection: keep-alive\r\n" >>

(***************************************************************************)
(* Outgoing buffers.  size is the allocated size, mem the used size, last  *)
(* the nxt_buf_is_last flag, text what the engine wrote into the buffer,   *)
(* req the request whose pool holds the buffer.                            *)
(***************************************************************************)
OutBuf(kind, size, mem, last, text, req) ==
    [kind |-> kind, size |-> size, mem |-> mem, last |-> last,
     text |-> text, req |-> req]

DataBuf(n, req) == OutBuf("data", n, n, FALSE, <<>>, req)

LastBuf(req) == OutBuf("last", 0, 0, TRUE, <<>>, req)

TextLen(text) == SeqSum([i \in 1..Len(text) |-> Len(text[i])])


(***************************************************************************)
(* Requests (nxt_http_request.c, outside this file).                       *)
(***************************************************************************)
\* nxt_http_request_t after nxt_http_request_create.  resp.content_length
\* is the index in resp.fields of the Content-Length field, or NULL.
NewRequest ==
    [state |-> "init", status |-> 0, header_sent |-> FALSE,
     content_length_n |-> -1, body |-> NULL, fields |-> <<>>,
     resp |-> [fields |-> <<>>, content_length |-> NULL]]

Field(name, value) == [name |-> name, value |-> value]

RespField(name, value, skip) == [name |-> name, value |-> value, skip |-> skip]

\* The request headers the peer may send: the minor digit of the version
\* with either a Connection field or none, or with any of a
\* Transfer-Encoding and a Content-Length field.
RequestHeaders ==
    { [minor |-> m, fields |-> cn] :
        m \in {"0", "1"},
        cn \in {<<>>} \cup
               { <<Field("Connection", v)>> : v \in {"close", "keep-alive"} } }
    \cup
    { [minor |-> m, fields |-> te \o cl] :
        m \in {"0", "1"},
        te \in {<<>>} \cup
               { <<Field("Transfer-Encoding", v)>> : v \in {"chunked", "gzip"} },
        cl \in {<<>>} \cup
               { <<Field("Content-Length", ToString(n))>> :
                    n \in 0..MaxContentLength } \cup
               { <<Field("Content-Length", "x")>> } }

\* nxt_http_parse_request on a buffer with `used` unparsed bytes: what it
\* returns and how many bytes it consumes (mem.pos advances over complete
\* tokens only).  NXT_DONE: the header ends in this buffer.  NXT_AGAIN: the
\* bytes left are the start of an incomplete token.
ParseResults(used) ==
    { [ret |-> "DONE", k |-> k, hdr |-> h] :
        k \in 1..used, h \in RequestHeaders }
    \cup
    { [ret |-> rc, k |-> k, hdr |-> [minor |-> "", fields |-> <<>>]] :
        rc \in {"AGAIN"}, k \in 0..used }
    \cup
    { [ret |-> rc, k |-> 0, hdr |-> [minor |-> "", fields |-> <<>>]] :
        rc \in {"INVALID", "UNSUPPORTED_VERSION", "TOO_LARGE_FIELD", "ERROR"} }

\* The effect of nxt_http_parse_request on the buffer and the parser.
nxt_http_parse_request(s, o) ==
    LET in == s.c.read
    IN  [Log(s, "http parse request " \o o.ret) EXCEPT
            !.bufs[in].pos = @ + o.k,
            !.bufs[in].data = SubSeq(@, o.k + 1, Len(@)),
            !.h1p.parser.consumed = @ + o.k,
            !.h1p.parser.minor = o.hdr.minor]

\* nxt_http_request_content_length: the decimal value of the field, or
\* NXT_ERROR when the value is no number.
nxt_http_request_content_length(s, r, field) ==
    LET ns == { n \in 0..MaxContentLength : ToString(n) = field.value }
    IN  IF ns = {}
        THEN [ret |-> "ERROR", s |-> s]
        ELSE [ret |-> "OK",
              s |-> [s EXCEPT !.reqs[r].content_length_n = CHOOSE n \in ns : TRUE]]

(***************************************************************************)
(* nxt_h1proto.c: the field handlers.                                      *)
(***************************************************************************)
\* nxt_h1p_connection without its test of the value: the field is ignored.
nxt_h1p_connection_ignored(s, field) == s

nxt_h1p_connection(s, field) ==
    IF Len(field.value) = 5 /\ field.value = "close"
    THEN [s EXCEPT !.h1p.keepalive = FALSE]
    ELSE s

\* nxt_h1p_transfer_encoding without its test of the value: every value is
\* taken for chunked.
nxt_h1p_transfer_encoding_any(s, field) ==
    [s EXCEPT !.h1p.transfer_encoding = "CHUNKED"]

nxt_h1p_transfer_encoding(s, field) ==
    LET te == IF Len(field.value) = 7 /\ field.value = "chunked"
              THEN "CHUNKED"
              ELSE "UNSUPPORTED"
    IN  [s EXCEPT !.h1p.transfer_encoding = te]

\* The handler nxt_h1p_fields_hash gives for a field name; a name not in
\* the hash has no handler.
nxt_h1p_fields(s, r, field) ==
    CASE field.name = "Connection" ->
            [ret |-> "OK", s |-> nxt_h1p_connection(s, field)]
      [] field.name = "Transfer-Encoding" ->
            [ret |-> "OK", s |-> nxt_h1p_transfer_encoding(s, field)]
      [] field.name = "Content-Length" ->
            nxt_http_request_content_length(s, r, field)
      [] OTHER -> [ret |-> "OK", s |-> s]

\* nxt_http_fields_process: the handlers in the order of the field list,
\* stopping at the first that fails.
nxt_http_fields_process(s, r) ==
    LET fields == s.reqs[r].fields
        RECURSIVE process(_, _)
        process(t, i) ==
            IF i > Len(fields)
            THEN [ret |-> "OK", s |-> t]
            ELSE LET res == nxt_h1p_fields(t, r, fields[i])
                 IN  IF res.ret = "OK"
                     THEN process(res.s, i + 1)
                     ELSE res
    IN  process(s, 1)


\* The pool of a request is released: the request and its buffers are gone.
nxt_mp_release(s, r) ==
    LET RECURSIVE freed(_)
        freed(i) ==
            IF i = 0 THEN <<>>
            ELSE Append(freed(i - 1),
                        IF s.bufs[i].pool = r
                        THEN [s.bufs[i] EXCEPT !.freed = TRUE]
                        ELSE s.bufs[i])
    IN  [s EXCEPT !.reqs = [i \in (DOMAIN s.reqs) \ {r} |-> s.reqs[i]],
                  !.bufs = freed(Len(s.bufs))]

\* nxt_mp_free of every buffer of the list ids.
FreeBufs(s, ids) ==
    LET RECURSIVE free(_)
        free(i) ==
            IF i = 0 THEN s
            ELSE [free(i - 1) EXCEPT !.bufs[ids[i]].freed = TRUE]
    IN  free(Len(ids))

\* Lowercase hexadecimal, the %xO of nxt_sprintf.
Hex(n) ==
    LET digit(d) == <<"0", "1", "2", "3", "4", "5", "6", "7",
                      "8", "9", "a", "b", "c", "d", "e", "f">>[d + 1]
        RECURSIVE hex(_)
        hex(m) == IF m < 16 THEN digit(m) ELSE hex(m \div 16) \o digit(m % 16)
    IN  hex(n)

(***************************************************************************)
(* Calls.  A handler gives the set of its outcomes: the state it leaves    *)
(* and the calls it ends with (a tail call of another handler, or none).   *)
(* Run carries the pending calls out, so that an event is one step.        *)
(***************************************************************************)
Ret(s) == [s |-> s, call |-> <<>>]

\* f is the function called, r its request or data pointer, x a status.
Call(s, f, r, x) == [s |-> s, call |-> <<[f |-> f, r |-> r, x |-> x]>>]

Enqueue(s, h, r) == [s EXCEPT !.wq = Append(@, [h |-> h, r |-> r])]

(***************************************************************************)
(* nxt_h1proto.c: the handlers.                                            *)
(***************************************************************************)
nxt_h1p_close(s) ==
    LET s1 == [Log(s, "h1p close") EXCEPT !.c.socket_data = NULL]
    IN  IF s1.c.fd # -1
        THEN nxt_conn_close([s1 EXCEPT !.c.write_state = "close"])
        ELSE s1

\* nxt_h1p_conn_close without the test of h1p->request: the socket is
\* closed whether a request is active or not.
nxt_h1p_conn_close_direct(s, data) ==
    { Ret(nxt_h1p_close(Log(s, "h1p conn close"))) }

nxt_h1p_conn_close(s, data) ==
    LET s1 == Log(s, "h1p conn close")
    IN  IF data # NULL /\ s1.h1p.request # NULL
        THEN \* r->state->error_handler
             { Call(s1, "nxt_http_request_close_handler", s1.h1p.request, 0) }
        ELSE { Ret(nxt_h1p_close(s1)) }

nxt_h1p_conn_error(s, data) ==
    { Call(Log(s, "h1p conn error"), "nxt_h1p_conn_close", data, 0) }

nxt_h1p_conn_timeout(s) ==
    { Call(Log(s, "h1p conn timeout"), "nxt_h1p_conn_close",
           s.c.socket_data, 0) }

\* The error handler of every request state: the request is given up, its
\* protocol object is closed (nxt_http_proto_close), then its pool released.
nxt_http_request_close_handler(s, r) ==
    { [s |-> s,
       call |-> << [f |-> "nxt_h1p_request_close", r |-> r, x |-> 0],
                   [f |-> "nxt_mp_release", r |-> r, x |-> 0] >>] }

\* nxt_http_request_error: an error response without a body; a request
\* whose header is already sent is closed.  The error response may or may
\* not carry a Content-Length field.
nxt_http_request_error(s, r, status) ==
    IF s.reqs[r].header_sent
    THEN { Call(s, "nxt_http_request_close_handler", r, 0) }
    ELSE LET type == RespField("Content-Type", "text/html", FALSE)
             length == RespField("Content-Length", "0", FALSE)
             send(resp) ==
                 Call([s EXCEPT !.reqs[r].status = status,
                                !.reqs[r].resp = resp,
                                !.reqs[r].state = "send_error_body"],
                      "nxt_h1p_request_header_send", r, 0)
         IN  { send([fields |-> <<type>>, content_length |-> NULL]),
               send([fields |-> <<type, length>>, content_length |-> 2]) }

\* The ready handler of a new request: the body is read next.
nxt_http_request_start(s, r) ==
    { Call([s EXCEPT !.reqs[r].state = "body"],
           "nxt_h1p_request_body_read", r, 0) }

nxt_h1p_read_header(s) ==
    LET s1 == Log(s, "h1p read header")
        read(t) == nxt_conn_read([t EXCEPT !.c.read_state = "read_header"])
        size == s1.conf.header_buffer_size
    IN  IF s1.c.read = NULL
        THEN { Ret(read([s1 EXCEPT !.bufs = Append(@, NewBuf(size, 0)),
                                   !.c.read = Len(s1.bufs) + 1])),
               Call(s1, "nxt_h1p_conn_error", s1.c.socket_data, 0) }
        ELSE { Ret(read(s1)) }

\* Lines 274-306 without the test of h1p->nbuffers against the cap.
nxt_h1p_header_again_uncapped(s, r) ==
    LET in == s.c.read
        size == s.conf.large_header_buffer_size
        used == nxt_buf_mem_used_size(s.bufs[in])
        grown ==
            [s EXCEPT
                !.bufs = Append(@, [NewBuf(size, 0) EXCEPT
                                      !.free = used,
                                      !.data = s.bufs[in].data]),
                !.h1p.nbuffers = @ + 1,
                !.h1p.buffers = <<in>> \o @,
                !.c.read = Len(s.bufs) + 1]
    IN  IF nxt_buf_mem_free_size(s.bufs[in]) = 0
        THEN IF size <= used
             THEN { Call(s, "nxt_http_request_error", r,
                         NXT_HTTP_REQUEST_HEADER_FIELDS_TOO_LARGE) }
             ELSE { Ret(nxt_conn_read(grown)),
                    Call(s, "nxt_http_request_error", r,
                         NXT_HTTP_INTERNAL_SERVER_ERROR) }
        ELSE { Ret(nxt_conn_read(s)) }

\* Lines 274-306 without the growth: a full buffer is always refused.
nxt_h1p_header_again_fixed(s, r) ==
    IF nxt_buf_mem_free_size(s.bufs[s.c.read]) = 0
    THEN { Call(s, "nxt_http_request_error", r,
                NXT_HTTP_REQUEST_HEADER_FIELDS_TOO_LARGE) }
    ELSE { Ret(nxt_conn_read(s)) }

\* Lines 274-306: the parser needs more input.
nxt_h1p_header_again(s, r) ==
    LET in == s.c.read
        size == s.conf.large_header_buffer_size
        used == nxt_buf_mem_used_size(s.bufs[in])
        b == Len(s.bufs) + 1
        grown ==
            [s EXCEPT
                !.bufs = Append(@, [NewBuf(size, 0) EXCEPT
                                      !.free = used,
                                      !.data = s.bufs[in].data]),
                !.h1p.nbuffers = @ + 1,
                !.h1p.buffers = <<in>> \o @,
                !.c.read = b]
    IN  IF nxt_buf_mem_free_size(s.bufs[in]) = 0
        THEN IF size <= used
                \/ s.h1p.nbuffers >= s.conf.large_header_buffers
             THEN { Call(s, "nxt_http_request_error", r,
                         NXT_HTTP_REQUEST_HEADER_FIELDS_TOO_LARGE) }
             ELSE { Ret(nxt_conn_read(grown)),
                    Call(s, "nxt_http_request_error", r,
                         NXT_HTTP_INTERNAL_SERVER_ERROR) }
        ELSE { Ret(nxt_conn_read(s)) }

\* Lines 241-272 with keepalive on whatever the version is.
nxt_h1p_header_done_alive(s, r, hdr) ==
    LET s2 == [s EXCEPT
                  !.h1p.keepalive = TRUE,
                  !.reqs[r].fields = hdr.fields]
        res == nxt_http_fields_process(s2, r)
    IN  IF res.ret = "OK"
        THEN Call(res.s, "nxt_http_request_start", r, 0)
        ELSE Call(res.s, "nxt_http_request_error", r, NXT_HTTP_BAD_REQUEST)

\* Lines 241-272: the header is complete.
nxt_h1p_header_done(s, r, hdr) ==
    LET s2 == [s EXCEPT
                  !.h1p.keepalive = (s.h1p.parser.minor # "0"),
                  !.reqs[r].fields = hdr.fields]
        res == nxt_http_fields_process(s2, r)
    IN  IF res.ret = "OK"
        THEN \* r->state->ready_handler
             Call(res.s, "nxt_http_request_start", r, 0)
        ELSE Call(res.s, "nxt_http_request_error", r, NXT_HTTP_BAD_REQUEST)

\* Lines 308-329 with one status for every return code.
nxt_h1p_parse_status_invalid(ret) == NXT_HTTP_BAD_REQUEST

\* Lines 308-329: the status of a tokenizer failure.
nxt_h1p_parse_status(ret) ==
    CASE ret = "INVALID" -> NXT_HTTP_BAD_REQUEST
      [] ret = "UNSUPPORTED_VERSION" -> NXT_HTTP_VERSION_NOT_SUPPORTED
      [] ret = "TOO_LARGE_FIELD" -> NXT_HTTP_REQUEST_HEADER_FIELDS_TOO_LARGE
      [] OTHER -> NXT_HTTP_INTERNAL_SERVER_ERROR

\* Lines 239-329: what follows the call of the tokenizer.
nxt_h1p_header_parsed(s, r, o) ==
    LET s1 == nxt_http_parse_request(s, o)
    IN  CASE o.ret = "DONE" -> { nxt_h1p_header_done(s1, r, o.hdr) }
          [] o.ret = "AGAIN" -> nxt_h1p_header_again(s1, r)
          [] OTHER ->
                { Call(s1, "nxt_http_request_error", r,
                       nxt_h1p_parse_status(o.ret)) }

nxt_h1p_header_parse(s, data) ==
    LET s0 == Log(s, "h1p header parse")
        fail(t, h) == Call(t, "nxt_h1p_conn_close", h, 0)
        \* lines 202-210
        sH == IF data = NULL
              THEN [s0 EXCEPT !.h1p = ZeroH1p, !.c.socket_data = 1]
              ELSE s0
        failH == IF data = NULL THEN { fail(s0, NULL) } ELSE {}
        \* lines 212-237
        new == sH.h1p.request = NULL
        id == sH.nreq + 1
        sR == IF new
              THEN [sH EXCEPT !.nreq = id,
                              !.reqs = (id :> NewRequest) @@ @,
                              !.h1p.request = id,
                              !.h1p.parser = ZeroParser]
              ELSE sH
        failR == IF new
                 THEN { fail(sH, 1), fail([sH EXCEPT !.nreq = id], 1) }
                 ELSE {}
        r == sR.h1p.request
    IN  IF sR.c.read = NULL
        THEN failH \cup failR \cup { Ret(Crash(sR)) }
        ELSE failH \cup failR \cup
             UNION { nxt_h1p_header_parsed(sR, r, o) :
                       o \in ParseResults(
                                nxt_buf_mem_used_size(sR.bufs[sR.c.read])) }

\* The error label without the assignment to h1p->keepalive.
nxt_h1p_request_body_error_keep(s, r, status) ==
    Call(s, "nxt_http_request_error", r, status)

\* Lines 463-468, the error label of nxt_h1p_request_body_read.
nxt_h1p_request_body_error(s, r, status) ==
    Call([s EXCEPT !.h1p.keepalive = FALSE],
         "nxt_http_request_error", r, status)

\* nxt_h1p_request_body_read without lines 431-433: all the bytes read
\* behind the header are copied.
nxt_h1p_request_body_read_all(s, r) ==
    LET s0 == Log(s, "h1p body read")
        te == s0.h1p.transfer_encoding
        n == s0.reqs[r].content_length_n
        error(t, status) == nxt_h1p_request_body_error(t, r, status)
        ready(t) == Ret(Enqueue(t, "ready", r))
        \* lines 413-425
        b == IF s0.reqs[r].body = NULL
             THEN Len(s0.bufs) + 1
             ELSE s0.reqs[r].body
        s1 == IF s0.reqs[r].body = NULL
              THEN [s0 EXCEPT !.bufs = Append(@, NewBuf(n, r)),
                              !.reqs[r].body = b]
              ELSE s0
        \* lines 427-438
        in == s1.c.read
        used == nxt_buf_mem_used_size(s1.bufs[in])
        size == used
        s2 == IF used # 0
              THEN [s1 EXCEPT
                      !.bufs[b].free = @ + size,
                      !.bufs[b].data = @ \o SubSeq(s1.bufs[in].data, 1, size),
                      !.bufs[in].pos = @ + size,
                      !.bufs[in].data = SubSeq(@, size + 1, Len(@))]
              ELSE s1
        \* lines 440-454
        rest == nxt_buf_mem_free_size(s2.bufs[b])
        s3 == nxt_conn_read(
                  [Log(s2, "h1p body rest") EXCEPT
                      !.h1p.buffers = <<in>> \o @,
                      !.c.read = b,
                      !.c.read_state = "read_body"])
    IN  CASE te = "CHUNKED" -> { error(s0, NXT_HTTP_LENGTH_REQUIRED) }
          [] te = "UNSUPPORTED" -> { error(s0, NXT_HTTP_NOT_IMPLEMENTED) }
          [] OTHER ->
                IF n = -1 \/ n = 0
                THEN { ready(s0) }
                ELSE IF n > s0.conf.max_body_size
                THEN { error(s0, NXT_HTTP_PAYLOAD_TOO_LARGE) }
                ELSE (IF s0.reqs[r].body = NULL
                      THEN { error(s0, NXT_HTTP_INTERNAL_SERVER_ERROR) }
                      ELSE {})
                     \cup
                     (IF s1.c.read = NULL
                      THEN { Ret(Crash(s1)) }
                      ELSE IF rest # 0
                      THEN { Ret(s3) }
                      ELSE { ready(Log(s2, "h1p body rest")) })

nxt_h1p_request_body_read(s, r) ==
    LET s0 == Log(s, "h1p body read")
        te == s0.h1p.transfer_encoding
        n == s0.reqs[r].content_length_n
        error(t, status) == nxt_h1p_request_body_error(t, r, status)
        ready(t) == Ret(Enqueue(t, "ready", r))
        \* lines 413-425
        b == IF s0.reqs[r].body = NULL
             THEN Len(s0.bufs) + 1
             ELSE s0.reqs[r].body
        s1 == IF s0.reqs[r].body = NULL
              THEN [s0 EXCEPT !.bufs = Append(@, NewBuf(n, r)),
                              !.reqs[r].body = b]
              ELSE s0
        \* lines 427-438
        in == s1.c.read
        used == nxt_buf_mem_used_size(s1.bufs[in])
        size == Min(used, n)
        s2 == IF used # 0
              THEN [s1 EXCEPT
                      !.bufs[b].free = @ + size,
                      !.bufs[b].data = @ \o SubSeq(s1.bufs[in].data, 1, size),
                      !.bufs[in].pos = @ + size,
                      !.bufs[in].data = SubSeq(@, size + 1, Len(@))]
              ELSE s1
        \* lines 440-454
        rest == nxt_buf_mem_free_size(s2.bufs[b])
        s3 == nxt_conn_read(
                  [Log(s2, "h1p body rest") EXCEPT
                      !.h1p.buffers = <<in>> \o @,
                      !.c.read = b,
                      !.c.read_state = "read_body"])
    IN  CASE te = "CHUNKED" -> { error(s0, NXT_HTTP_LENGTH_REQUIRED) }
          [] te = "UNSUPPORTED" -> { error(s0, NXT_HTTP_NOT_IMPLEMENTED) }
          [] OTHER ->
                IF n = -1 \/ n = 0
                THEN { ready(s0) }
                ELSE IF n > s0.conf.max_body_size
                THEN { error(s0, NXT_HTTP_PAYLOAD_TOO_LARGE) }
                ELSE (IF s0.reqs[r].body = NULL
                      THEN { error(s0, NXT_HTTP_INTERNAL_SERVER_ERROR) }
                      ELSE {})
                     \cup
                     (IF s1.c.read = NULL
                      THEN { Ret(Crash(s1)) }
                      ELSE IF rest # 0
                      THEN { Ret(s3) }
                      ELSE { ready(Log(s2, "h1p body rest")) })

nxt_h1p_body_read(s, data) ==
    LET s0 == Log(s, "h1p body read")
        size == nxt_buf_mem_free_size(s0.bufs[s0.c.read])
        s1 == Log(s0, "h1p body rest")
    IN  IF size # 0
        THEN { Ret(nxt_conn_read(s1)) }
        ELSE IF data = NULL \/ s1.h1p.request = NULL
        THEN { Ret(Crash(s1)) }
        ELSE { Ret(Enqueue([s1 EXCEPT !.c.read = NULL],
                           "ready", s1.h1p.request)) }

\* r->resp.content_length == NULL || r->resp.content_length->skip
NoContentLength(resp) ==
    \/ resp.content_length = NULL
    \/ resp.fields[resp.content_length].skip

\* Lines 660-672 without the test of the version: a response without a
\* Content-Length is always chunked.
nxt_h1p_response_framing_chunked(s, r) ==
    IF NoContentLength(s.reqs[r].resp)
    THEN [s EXCEPT !.h1p.chunked = TRUE]
    ELSE s

\* Lines 660-672 of nxt_h1p_request_header_send: the framing of a response
\* without a Content-Length.
nxt_h1p_response_framing(s, r) ==
    LET http11 == s.h1p.parser.minor # "0"
    IN  IF NoContentLength(s.reqs[r].resp)
        THEN IF http11
             THEN [s EXCEPT !.h1p.chunked = TRUE]
             ELSE [s EXCEPT !.h1p.keepalive = FALSE]
        ELSE s

\* Lines 674-679 without the comparison to the version's default: a
\* Connection line is always written.
nxt_h1p_response_connection_always(s) ==
    IF s.h1p.keepalive THEN 1 ELSE 0

\* Lines 674-679 of nxt_h1p_request_header_send: the index of the
\* Connection line, or -1 for none.
nxt_h1p_response_connection(s) ==
    LET http11 == s.h1p.parser.minor # "0"
    IN  IF http11 # s.h1p.keepalive
        THEN (IF s.h1p.keepalive THEN 1 ELSE 0)
        ELSE -1

nxt_h1p_request_header_send(s, r) ==
    LET s0 == [Log(s, "h1p request header send") EXCEPT
                  !.reqs[r].header_sent = TRUE]
        resp == s0.reqs[r].resp
        status == StatusLine(s0.reqs[r].status)
        http11 == s0.h1p.parser.minor # "0"
        nolength == NoContentLength(resp)
        s1 == nxt_h1p_response_framing(s0, r)
        size0 == Len(status) + 2
                 + (IF nolength /\ http11 THEN Len(chunked_line) - 2 ELSE 0)
        conn == nxt_h1p_response_connection(s1)
        size1 == size0 + (IF conn >= 0 THEN Len(connection[conn + 1]) ELSE 0)
        \* lines 681-688
        noskip(f) == ~f.skip
        fields == SelectSeq(resp.fields, noskip)
        size == size1 + SeqSum([i \in 1..Len(fields) |->
                          Len(fields[i].name) + Len(fields[i].value) + 4])
        \* lines 698-725
        text == <<status>>
                \o [i \in 1..Len(fields) |->
                      fields[i].name \o ": " \o fields[i].value \o "\r\n"]
                \o (IF conn >= 0 THEN <<connection[conn + 1]>> ELSE <<>>)
                \o (IF s1.h1p.chunked THEN <<chunked_line>> ELSE <<"\r\n">>)
        header == OutBuf("header", size, TextLen(text), FALSE, text, r)
        sent == nxt_conn_write(
                    Enqueue([s1 EXCEPT !.c.write = <<header>>,
                                       !.c.write_state = "send"],
                            "ready", r))
    IN  { Ret(sent),
          Call([s1 EXCEPT !.reqs[r].status = NXT_HTTP_INTERNAL_SERVER_ERROR],
               "nxt_h1p_conn_close", 1, 0) }

\* nxt_h1p_chunk_create without the test of size == 0: a chunk header is
\* prepended to every chain.
nxt_h1p_chunk_create_eager(r, out) ==
    LET lasts == { i \in 1..Len(out) : out[i].last }
        end == IF lasts = {}
               THEN Len(out) + 1
               ELSE CHOOSE i \in lasts : \A j \in lasts : i <= j
        size == SeqSum([i \in 1..(end - 1) |-> out[i].mem])
        tail_chunk == <<"\r\n", "0", "\r\n", "\r\n">>
        tail == OutBuf("chunk", 2 * 2 + 16, TextLen(tail_chunk), FALSE,
                       tail_chunk, r)
        out1 == IF lasts = {}
                THEN out
                ELSE SubSeq(out, 1, end - 1) \o <<tail>>
                     \o SubSeq(out, end, Len(out))
        head == <<"\r\n", Hex(size), "\r\n">>
        header == OutBuf("chunk", 2 * 2 + 16, TextLen(head), FALSE, head, r)
    IN  { [ok |-> FALSE, out |-> <<>>],
          [ok |-> TRUE, out |-> <<header>> \o out1] }

\* nxt_h1p_chunk_create: the chain framed as one chunk, or ok = FALSE when
\* an allocation fails.
nxt_h1p_chunk_create(r, out) ==
    LET lasts == { i \in 1..Len(out) : out[i].last }
        end == IF lasts = {}
               THEN Len(out) + 1
               ELSE CHOOSE i \in lasts : \A j \in lasts : i <= j
        size == SeqSum([i \in 1..(end - 1) |-> out[i].mem])
        tail_chunk == <<"\r\n", "0", "\r\n", "\r\n">>
        tail == OutBuf("chunk", 2 * 2 + 16, TextLen(tail_chunk), FALSE,
                       tail_chunk, r)
        out1 == IF lasts = {}
                THEN out
                ELSE SubSeq(out, 1, end - 1) \o <<tail>>
                     \o SubSeq(out, end, Len(out))
        head == <<"\r\n", Hex(size), "\r\n">>
        header == OutBuf("chunk", 2 * 2 + 16, TextLen(head), FALSE, head, r)
    IN  (IF lasts # {} \/ size # 0 THEN { [ok |-> FALSE, out |-> <<>>] } ELSE {})
        \cup
        { [ok |-> TRUE,
           out |-> IF size = 0 THEN out1 ELSE <<header>> \o out1] }

nxt_h1p_request_send(s, r, out) ==
    LET s0 == Log(s, "h1p request send")
        chains == IF s0.h1p.chunked
                  THEN nxt_h1p_chunk_create(r, out)
                  ELSE { [ok |-> TRUE, out |-> out] }
        send(t, o) ==
            IF t.c.write = <<>>
            THEN nxt_conn_write([t EXCEPT !.c.write = o,
                                          !.c.write_state = "send"])
            ELSE [t EXCEPT !.c.write = @ \o o]
    IN  { IF ch.ok
          THEN Ret(send(s0, ch.out))
          ELSE Call(s0, "nxt_h1p_conn_error", s0.c.socket_data, 0) :
          ch \in chains }

\* nxt_h1p_sent after the first k buffers of c->write are written:
\* nxt_sendbuf_completion0 takes them off the chain and queues the
\* completion of each; the completion of a last buffer ends its request.
nxt_h1p_sent(s, k) ==
    LET s0 == Log(s, "h1p sent")
        done == SelectSeq(SubSeq(s0.c.write, 1, k), LAMBDA b : b.last)
        s1 == [s0 EXCEPT
                 !.c.write = SubSeq(@, k + 1, Len(@)),
                 !.wq = @ \o [i \in 1..Len(done) |->
                                [h |-> "done", r |-> done[i].req]]]
    IN  IF s1.c.write # <<>> THEN nxt_conn_write(s1) ELSE s1

\* nxt_h1p_request_close without the test of h1p->keepalive: the
\* connection is always closed.
nxt_h1p_request_close_always(s) ==
    { Ret(nxt_h1p_close([Log(s, "h1p request close") EXCEPT
                            !.h1p.request = NULL])) }

nxt_h1p_request_close(s) ==
    LET s0 == [Log(s, "h1p request close") EXCEPT !.h1p.request = NULL]
    IN  IF s0.h1p.keepalive
        THEN { Call(s0, "nxt_h1p_keepalive", 0, 0) }
        ELSE { Ret(nxt_h1p_close(s0)) }

\* nxt_h1p_keepalive that leaves the bytes where they are and waits for the
\* next read event instead of parsing them.
nxt_h1p_keepalive_waiting(s) ==
    LET s0 == [Log(s, "h1p keepalive") EXCEPT !.c.tcp_nodelay = TRUE]
        b == s0.h1p.buffers
        s1 == [s0 EXCEPT !.h1p = ZeroH1p]
        large == s1.c.read = NULL
        in == IF large THEN Head(b) ELSE s1.c.read
        s2 == FreeBufs([s1 EXCEPT !.c.read = in],
                       IF large THEN Tail(b) ELSE b)
    IN  IF large /\ b = <<>>
        THEN { Ret(Crash(s1)) }
        ELSE IF read_ready(s2)
        THEN { Ret(nxt_conn_read(
                       [s2 EXCEPT !.c.read_state = "read_header"])) }
        ELSE { Ret(nxt_conn_wait([s2 EXCEPT !.c.read_state = "idle"])) }

\* nxt_h1p_keepalive that zeroes the fields before chunked only.
nxt_h1p_keepalive_partly(s) ==
    LET s0 == [Log(s, "h1p keepalive") EXCEPT !.c.tcp_nodelay = TRUE]
        b == s0.h1p.buffers
        s1 == [s0 EXCEPT !.h1p = [ZeroH1p EXCEPT
                                     !.chunked = s0.h1p.chunked,
                                     !.transfer_encoding =
                                         s0.h1p.transfer_encoding]]
        large == s1.c.read = NULL
        in == IF large THEN Head(b) ELSE s1.c.read
        s2 == FreeBufs([s1 EXCEPT !.c.read = in],
                       IF large THEN Tail(b) ELSE b)
        size == nxt_buf_mem_used_size(s2.bufs[in])
        s3 == [s2 EXCEPT !.bufs[in].pos = 0, !.bufs[in].free = 0]
        s4 == [Log(s2, "h1p pipelining") EXCEPT
                  !.bufs[in].pos = 0, !.bufs[in].free = size]
    IN  IF large /\ b = <<>>
        THEN { Ret(Crash(s1)) }
        ELSE IF size = 0
        THEN IF read_ready(s3)
             THEN { Ret(nxt_conn_read(
                            [s3 EXCEPT !.c.read_state = "read_header"])) }
             ELSE { Ret(nxt_conn_wait([s3 EXCEPT !.c.read_state = "idle"])) }
        ELSE { Call(s4, "nxt_h1p_header_parse", s4.c.socket_data, 0) }

nxt_h1p_keepalive(s) ==
    LET s0 == [Log(s, "h1p keepalive") EXCEPT !.c.tcp_nodelay = TRUE]
        b == s0.h1p.buffers
        s1 == [s0 EXCEPT !.h1p = ZeroH1p]
        \* lines 894-909
        large == s1.c.read = NULL
        in == IF large THEN Head(b) ELSE s1.c.read
        s2 == FreeBufs([s1 EXCEPT !.c.read = in],
                       IF large THEN Tail(b) ELSE b)
        size == nxt_buf_mem_used_size(s2.bufs[in])
        \* lines 913-925
        s3 == [s2 EXCEPT !.bufs[in].pos = 0, !.bufs[in].free = 0]
        \* lines 927-934
        s4 == [Log(s2, "h1p pipelining") EXCEPT
                  !.bufs[in].pos = 0, !.bufs[in].free = size]
    IN  IF large /\ b = <<>>
        THEN { Ret(Crash(s1)) }
        ELSE IF size = 0
        THEN IF read_ready(s3)
             THEN { Ret(nxt_conn_read(
                            [s3 EXCEPT !.c.read_state = "read_header"])) }
             ELSE { Ret(nxt_conn_wait([s3 EXCEPT !.c.read_state = "idle"])) }
        ELSE { Call(s4, "nxt_h1p_header_parse", s4.c.socket_data, 0) }

(***************************************************************************)
(* The request layer and the application (outside this file).              *)
(***************************************************************************)
\* r->state->ready_handler, run from the work queue.
nxt_http_request_ready(s, r) ==
    CASE s.reqs[r].state = "init" -> nxt_http_request_start(s, r)
      [] s.reqs[r].state = "body" ->
            \* the request is passed to the application
            { Ret([s EXCEPT !.reqs[r].state = "app"]) }
      [] s.reqs[r].state = "send_error_body" ->
            nxt_h1p_request_send(s, r, <<LastBuf(r)>>)
      [] OTHER -> { Ret(s) }

\* What the application answers: a status and the response fields (none,
\* a Content-Type, a Content-Length, a Content-Length marked skip).
AppResponses ==
    { [status |-> 200,
       resp |-> [fields |-> <<>>, content_length |-> NULL]],
      [status |-> 600,
       resp |-> [fields |-> <<RespField("Content-Type", "text/plain", FALSE)>>,
                 content_length |-> NULL]],
      [status |-> 200,
       resp |-> [fields |-> <<RespField("Content-Length", "1", FALSE)>>,
                 content_length |-> 1]],
      [status |-> 200,
       resp |-> [fields |-> <<RespField("Content-Length", "1", TRUE)>>,
                 content_length |-> 1]] }

\* Buffer chains the application sends: at most one data buffer, then
\* possibly the last marker.
AppChains(r) ==
    { d \o l : d \in {<<>>} \cup { <<DataBuf(n, r)>> : n \in 0..MaxData },
               l \in {<<>>, <<LastBuf(r)>>} } \ {<<>>}

(***************************************************************************)
(* A call and the calls it ends with, to the end.                          *)
(***************************************************************************)
Dispatch(s, f) ==
    CASE f.f = "nxt_h1p_read_header" -> nxt_h1p_read_header(s)
      [] f.f = "nxt_h1p_header_parse" -> nxt_h1p_header_parse(s, f.r)
      [] f.f = "nxt_h1p_body_read" -> nxt_h1p_body_read(s, f.r)
      [] f.f = "nxt_h1p_request_body_read" ->
            nxt_h1p_request_body_read(s, f.r)
      [] f.f = "nxt_h1p_request_header_send" ->
            nxt_h1p_request_header_send(s, f.r)
      [] f.f = "nxt_h1p_request_close" -> nxt_h1p_request_close(s)
      [] f.f = "nxt_h1p_keepalive" -> nxt_h1p_keepalive(s)
      [] f.f = "nxt_h1p_conn_close" -> nxt_h1p_conn_close(s, f.r)
      [] f.f = "nxt_h1p_conn_error" -> nxt_h1p_conn_error(s, f.r)
      [] f.f = "nxt_h1p_conn_timeout" -> nxt_h1p_conn_timeout(s)
      [] f.f = "nxt_http_request_start" -> nxt_http_request_start(s, f.r)
      [] f.f = "nxt_http_request_ready" -> nxt_http_request_ready(s, f.r)
      [] f.f = "nxt_http_request_error" ->
            nxt_http_request_error(s, f.r, f.x)
      [] f.f = "nxt_http_request_close_handler" ->
            nxt_http_request_close_handler(s, f.r)
      [] f.f = "nxt_mp_release" -> { Ret(nxt_mp_release(s, f.r)) }

RECURSIVE Run(_, _)
Run(s, calls) ==
    IF calls = <<>>
    THEN { s }
    ELSE UNION { Run(o.s, o.call \o Tail(calls)) :
                   o \in Dispatch(s, Head(calls)) }

\* The states handler f, called with r, can leave behind.
Handler(s, f, r) == Run(s, <<[f |-> f, r |-> r, x |-> 0]>>)

(***************************************************************************)
(* The state machine.                                                      *)
(***************************************************************************)
State ==
    [conf |-> conf, c |-> c, h1p |-> h1p, reqs |-> reqs, bufs |-> bufs,
     wq |-> wq, cli_sent |-> cli_sent, rcvd |-> rcvd, nreq |-> nreq,
     log |-> <<>>]

Becomes(t) ==
    /\ conf' = t.conf
    /\ c' = t.c
    /\ h1p' = t.h1p
    /\ reqs' = t.reqs
    /\ bufs' = t.bufs
    /\ wq' = t.wq
    /\ cli_sent' = t.cli_sent
    /\ rcvd' = t.rcvd
    /\ nreq' = t.nreq
    /\ log' = t.log
    /\ json' = json

\* An event is delivered to an open connection when the work queue of the
\* engine is drained.
Open == c.fd # -1 /\ wq = <<>>

\* nxt_http_conn_init has run: the connection waits in the idle state.
Init ==
    /\ conf \in SocketConfs
    /\ c = [read |-> NULL, read_state |-> "idle", write |-> <<>>,
            write_state |-> "none", socket_data |-> NULL, fd |-> 1,
            tcp_nodelay |-> FALSE, rd |-> "wait", wr |-> FALSE]
    /\ h1p = ZeroH1p
    /\ reqs = [i \in {} |-> NewRequest]
    /\ bufs = <<>>
    /\ wq = <<>>
    /\ cli_sent = 0
    /\ rcvd = 0
    /\ nreq = 0
    /\ log = <<"http conn init">>
    /\ json = NoJson

\* The peer sends n more bytes.
ClientSend ==
    /\ c.fd # -1
    /\ \E n \in 1..(MaxStream - cli_sent) :
          Becomes([Log(State, "peer sends") EXCEPT !.cli_sent = @ + n])

\* The socket of a waiting connection becomes readable.
WaitReady ==
    /\ Open
    /\ c.rd = "wait"
    /\ read_ready(State)
    /\ \E t \in Handler([State EXCEPT !.c.rd = "none"],
                        "nxt_h1p_read_header", 0) :
          Becomes(t)

\* A read into c->read completes; the ready handler of the read state runs.
ReadReady ==
    /\ Open
    /\ c.rd = "read"
    /\ read_ready(State)
    /\ c.read # NULL
    /\ LET n == Min(cli_sent - rcvd, nxt_buf_mem_free_size(bufs[c.read]))
           s == [State EXCEPT
                   !.c.rd = "none",
                   !.rcvd = @ + n,
                   !.bufs[c.read].free = @ + n,
                   !.bufs[c.read].data =
                       @ \o [i \in 1..n |-> rcvd + i]]
       IN  /\ n > 0
           /\ \E t \in Handler(s, IF c.read_state = "read_body"
                                  THEN "nxt_h1p_body_read"
                                  ELSE "nxt_h1p_header_parse",
                               c.socket_data) :
                 Becomes(t)

\* The peer closes the connection: the close handler of the read state.
PeerClose ==
    /\ Open
    /\ c.rd # "none"
    /\ \E t \in Handler([State EXCEPT !.c.rd = "none"],
                        "nxt_h1p_conn_close", c.socket_data) :
          Becomes(t)

\* A read or a write fails: the error handler of the state.
ConnError ==
    /\ Open
    /\ c.rd # "none" \/ c.wr
    /\ \E t \in Handler([State EXCEPT !.c.rd = "none", !.c.wr = FALSE],
                        "nxt_h1p_conn_error", c.socket_data) :
          Becomes(t)

\* The read timer of the state fires.
Timeout ==
    /\ Open
    /\ c.rd # "none"
    /\ \E t \in Handler([State EXCEPT !.c.rd = "none"],
                        "nxt_h1p_conn_timeout", 0) :
          Becomes(t)

\* The first buffer of c->write, or the whole chain, is written.
WriteReady ==
    /\ Open
    /\ c.wr
    /\ \E k \in {1, Len(c.write)} :
          Becomes(nxt_h1p_sent([State EXCEPT !.c.wr = FALSE], k))

\* The engine runs the first item of its fast work queue.
RunWork ==
    /\ wq # <<>>
    /\ LET w == Head(wq)
           s == [State EXCEPT !.wq = Tail(@)]
       IN  \E t \in IF w.r \notin DOMAIN reqs
                    THEN { Log(s, "released request") }
                    ELSE IF w.h = "ready"
                    THEN Handler(Log(s, "request ready"),
                                 "nxt_http_request_ready", w.r)
                    ELSE Handler(Log(s, "request done"),
                                 "nxt_http_request_close_handler", w.r) :
              Becomes(t)

\* The application answers: status, fields, nxt_http_request_header_send.
AppHeaderSend ==
    /\ Open
    /\ \E r \in DOMAIN reqs, a \in AppResponses :
          /\ reqs[r].state = "app"
          /\ \E t \in Handler([Log(State, "application header") EXCEPT
                                  !.reqs[r].status = a.status,
                                  !.reqs[r].resp = a.resp,
                                  !.reqs[r].state = "app_send"],
                              "nxt_h1p_request_header_send", r) :
                Becomes(t)

\* The application sends a buffer chain: nxt_http_request_send.
AppSend ==
    /\ Open
    /\ \E r \in DOMAIN reqs :
          /\ reqs[r].state = "app_send"
          /\ c.write = <<>>
          /\ \E out \in AppChains(r) :
                \E o \in nxt_h1p_request_send(
                             [Log(State, "application body") EXCEPT
                                 !.reqs[r].state =
                                     IF out[Len(out)].last
                                     THEN "app_done" ELSE @],
                             r, out) :
                   \E t \in Run(o.s, o.call) : Becomes(t)

Next ==
    \/ ClientSend
    \/ WaitReady
    \/ ReadReady
    \/ PeerClose
    \/ ConnError
    \/ Timeout
    \/ WriteReady
    \/ RunWork
    \/ AppHeaderSend
    \/ AppSend

Spec == Init /\ [][Next]_vars

TypeOK ==
    /\ conf \in SocketConfs
    /\ c.read \in 0..Len(bufs)
    /\ h1p.request \in {NULL} \cup DOMAIN reqs
    /\ rcvd <= cli_sent /\ cli_sent <= MaxStream

(***************************************************************************)
(* Chunked responses: the application's sends of one HTTP/1.1 response     *)
(* without a Content-Length, with nothing written to the socket yet, so    *)
(* that c->write holds the whole byte stream of the response.              *)
(***************************************************************************)
\* The data buffers of one chain, and the buffers c->write may hold before
\* the application has to wait.
MaxChunkBufs == 2
MaxChunkWrite == 6

\* Sizes of the application's data buffers.
ChunkSizes == {0, 1, 10, 255}

RECURSIVE DataChains(_, _)
DataChains(r, n) ==
    IF n = 0
    THEN { <<>> }
    ELSE DataChains(r, n - 1)
         \cup { Append(d, DataBuf(k, r)) :
                  d \in DataChains(r, n - 1), k \in ChunkSizes }

\* Chains of nxt_http_request_send: data buffers, then possibly the last
\* marker, which ends the chain.
ChunkChains(r) ==
    { d \o l : d \in DataChains(r, MaxChunkBufs),
               l \in {<<>>, <<LastBuf(r)>>} } \ {<<>>}

\* The header of an HTTP/1.1 request is parsed and the request is with the
\* application.
ChunkStart ==
    [conf |-> [header_buffer_size |-> 1, large_header_buffer_size |-> 1,
               large_header_buffers |-> 0, max_body_size |-> 1],
     c |-> [read |-> 1, read_state |-> "read_header", write |-> <<>>,
            write_state |-> "none", socket_data |-> 1, fd |-> 1,
            tcp_nodelay |-> FALSE, rd |-> "none", wr |-> FALSE],
     h1p |-> [ZeroH1p EXCEPT !.parser = [consumed |-> 1, minor |-> "1"],
                             !.keepalive = TRUE, !.request = 1],
     reqs |-> <<[NewRequest EXCEPT !.state = "app", !.body = NULL]>>,
     bufs |-> <<[NewBuf(1, 0) EXCEPT !.pos = 1, !.free = 1]>>,
     wq |-> <<>>, cli_sent |-> 1, rcvd |-> 1, nreq |-> 1,
     log |-> <<"request ready">>]

\* The application has sent the response header, which has no
\* Content-Length.
InitChunk ==
    \E a \in { a \in AppResponses : NoContentLength(a.resp) } :
        /\ \E t \in Handler([ChunkStart EXCEPT
                                !.log = <<"application header">>,
                                !.reqs[1].status = a.status,
                                !.reqs[1].resp = a.resp,
                                !.reqs[1].state = "app_send"],
                            "nxt_h1p_request_header_send", 1) :
              /\ t.h1p.request = 1
              /\ conf = t.conf
              /\ c = t.c
              /\ h1p = t.h1p
              /\ reqs = t.reqs
              /\ bufs = t.bufs
              /\ wq = t.wq
              /\ cli_sent = t.cli_sent
              /\ rcvd = t.rcvd
              /\ nreq = t.nreq
              /\ log = t.log
              /\ json = NoJson

\* The application sends a buffer chain: nxt_http_request_send.
ChunkSend ==
    /\ Open
    /\ Len(c.write) < MaxChunkWrite
    /\ \E r \in DOMAIN reqs :
          /\ reqs[r].state = "app_send"
          /\ \E out \in ChunkChains(r) :
                \E o \in nxt_h1p_request_send(
                             [Log(State, "application body") EXCEPT
                                 !.reqs[r].state =
                                     IF out[Len(out)].last
                                     THEN "app_done" ELSE @],
                             r, out) :
                   \E t \in Run(o.s, o.call) : Becomes(t)

NextChunk ==
    \/ RunWork
    \/ ChunkSend

SpecChunk == InitChunk /\ [][NextChunk]_vars

(***************************************************************************)
(* nxt_conf_json.c: bytes and 64-bit integers.                             *)
(***************************************************************************)
\* The printable characters of ASCII, from the space (32) on.
Ascii ==
    << " ", "!", "\"", "#", "$", "%", "&", "'", "(", ")", "*", "+", ",",
       "-", ".", "/", "0", "1", "2", "3", "4", "5", "6", "7", "8", "9",
       ":", ";", "<", "=", ">", "?", "@", "A", "B", "C", "D", "E", "F",
       "G", "H", "I", "J", "K", "L", "M", "N", "O", "P", "Q", "R", "S",
       "T", "U", "V", "W", "X", "Y", "Z", "[", "\\", "]", "^", "_", "grave",
       "a", "b", "c", "d", "e", "f", "g", "h", "i", "j", "k", "l", "m",
       "n", "o", "p", "q", "r", "s", "t", "u", "v", "w", "x", "y", "z",
       "{", "|", "}", "~" >>

\* The byte of a character; the control characters of C by their escapes
\* or their names.
Ord(ch) ==
    CASE ch = "\t" -> 9
      [] ch = "\n" -> 10
      [] ch = "\r" -> 13
      [] ch = "\f" -> 12
      [] ch = "backspace" -> 8
      [] OTHER -> 31 + CHOOSE i \in 1..Len(Ascii) : Ascii[i] = ch

\* The bytes of a text given by its characters.
Str(chars) == [i \in 1..Len(chars) |-> Ord(chars[i])]

\* u_char arithmetic.
U8(n) == n % 256

\* A uint64_t is its four 16-bit limbs, the most significant first.
Limb == 65536

U64(n) == <<0, 0, 0, n>>

\* x * m + a in 64 bits, for small m and a: the value and what is carried
\* out of the 64 bits.
U64MulAdd(x, m, a) ==
    LET t4 == x[4] * m + a
        t3 == x[3] * m + (t4 \div Limb)
        t2 == x[2] * m + (t3 \div Limb)
        t1 == x[1] * m + (t2 \div Limb)
    IN  [v |-> <<t1 % Limb, t2 % Limb, t3 % Limb, t4 % Limb>>,
         carry |-> t1 \div Limb]

RECURSIVE U64Less(_, _)
U64Less(x, y) ==
    /\ x # <<>>
    /\ \/ Head(x) < Head(y)
       \/ Head(x) = Head(y) /\ U64Less(Tail(x), Tail(y))

\* x / d and x % d for small d.
U64DivMod(x, d) ==
    LET r1 == x[1] % d
        r2 == (r1 * Limb + x[2]) % d
        r3 == (r2 * Limb + x[3]) % d
    IN  [q |-> << x[1] \div d, (r1 * Limb + x[2]) \div d,
                  (r2 * Limb + x[3]) \div d, (r3 * Limb + x[4]) \div d >>,
         r |-> (r3 * Limb + x[4]) % d]

\* -x in 64 bits.
U64Neg(x) ==
    U64MulAdd([i \in 1..4 |-> Limb - 1 - x[i]], 1, 1).v

\* The sign bit of an int64_t.
I64Negative(x) == x[1] >= Limb \div 2

\* 0x7fffffffffffffff
NXT_INT64_T_MAX == <<(Limb \div 2) - 1, Limb - 1, Limb - 1, Limb - 1>>

(***************************************************************************)
(* nxt_conf_json.c: values.                                                *)
(***************************************************************************)
NXT_CONF_JSON_STR_SIZE == 14

\* nxt_conf_json_value_t: the type and the member of the union it selects.
\* A string is its bytes (u.str[0] and string->length are their number),
\* an array its elements, an object its members.
Value(type, u) == [type |-> type, u |-> u]

Member(name, value) == [name |-> name, value |-> value]

\* What a parsing function returns: the position after the value, or NULL,
\* and the value it has filled in.
Parsed(pos, value) == [pos |-> pos, value |-> value]

Failed == Parsed(NULL, Value("NULL", 0))

(***************************************************************************)
(* nxt_conf_json.c: the parser.  m is the memory from the first byte of    *)
(* the text on, pos and end are indexes into it.                           *)
(***************************************************************************)
nxt_conf_json_skip_space(m, pos, end) ==
    LET RECURSIVE skip(_)
        skip(p) ==
            IF p # end /\ m[p] \in {Ord(" "), Ord("\t"), Ord("\r"), Ord("\n")}
            THEN skip(p + 1)
            ELSE p
    IN  skip(pos)

\* The digits accumulated with no test against the cutoff.
RECURSIVE nxt_conf_json_digits_unchecked(_, _, _, _, _, _)
nxt_conf_json_digits_unchecked(m, p, end, integer, ch0, wrapped) ==
    LET ch == U8(m[p] - Ord("0"))
        next == U64MulAdd(integer, 10, ch)
    IN  IF p = end
        THEN [p |-> p, integer |-> integer, ch |-> ch0, ok |-> TRUE,
              wrapped |-> wrapped]
        ELSE IF ch > 9
        THEN [p |-> p, integer |-> integer, ch |-> ch, ok |-> TRUE,
              wrapped |-> wrapped]
        ELSE nxt_conf_json_digits_unchecked(m, p + 1, end, next.v, ch,
                                            wrapped \/ next.carry # 0)

\* The loop of nxt_conf_json_parse_number: the digits are accumulated from
\* p on.  wrapped tells whether a product left the 64 bits.
RECURSIVE nxt_conf_json_digits(_, _, _, _, _, _)
nxt_conf_json_digits(m, p, end, integer, ch0, wrapped) ==
    LET cutoff == U64DivMod(NXT_INT64_T_MAX, 10).q
        cutlim == U64DivMod(NXT_INT64_T_MAX, 10).r
        ch == U8(m[p] - Ord("0"))
        next == U64MulAdd(integer, 10, ch)
    IN  IF p = end
        THEN [p |-> p, integer |-> integer, ch |-> ch0, ok |-> TRUE,
              wrapped |-> wrapped]
        ELSE IF ch > 9
        THEN [p |-> p, integer |-> integer, ch |-> ch, ok |-> TRUE,
              wrapped |-> wrapped]
        ELSE IF /\ ~U64Less(integer, cutoff)
                /\ (U64Less(cutoff, integer) \/ ch > cutlim)
        THEN [p |-> p, integer |-> integer, ch |-> ch, ok |-> FALSE,
              wrapped |-> wrapped]
        ELSE nxt_conf_json_digits(m, p + 1, end, next.v, ch,
                                  wrapped \/ next.carry # 0)

nxt_conf_json_parse_number(m, pos0, end) ==
    LET negative == m[pos0] = Ord("-")
        pos == IF negative THEN pos0 + 1 ELSE pos0
        d == nxt_conf_json_digits(m, pos, end, U64(0), m[pos0], FALSE)
        integer == IF negative THEN U64Neg(d.integer) ELSE d.integer
    IN  IF ~d.ok
        THEN Failed
        ELSE IF d.p = pos \/ (d.p > pos + 1 /\ m[pos] = Ord("0"))
        THEN Failed
        ELSE IF d.ch # Ord(".")
        THEN Parsed(d.p, Value("INTEGER", integer))
        ELSE Failed

\* nxt_utf8_encode (nxt_utf8.c): the UTF-8 bytes of a code point.
nxt_utf8_encode(u) ==
    IF u < 128
    THEN <<u>>
    ELSE IF u < 2048
    THEN <<192 + (u \div 64), 128 + (u % 64)>>
    ELSE IF u < 65536
    THEN <<224 + (u \div 4096), 128 + ((u \div 64) % 64), 128 + (u % 64)>>
    ELSE <<240 + (u \div 262144), 128 + ((u \div 4096) % 64),
           128 + ((u \div 64) % 64), 128 + (u % 64)>>

\* Lines 973-1045 of nxt_conf_json_parse_string: the scan for the closing
\* quote.  state is 0 for sw_usual, 1 for sw_escape, 2..5 for sw_encoded1
\* to sw_encoded4.
RECURSIVE nxt_conf_json_string_scan(_, _, _, _, _)
nxt_conf_json_string_scan(m, last, end, state, surplus) ==
    LET ch == m[last]
        go(st, sp) == nxt_conf_json_string_scan(m, last + 1, end, st, sp)
        stop(ok) == [last |-> last, surplus |-> surplus, ok |-> ok]
    IN  IF last = end
        THEN stop(TRUE)
        ELSE CASE state = 0 ->
                    IF ch = Ord("\"") THEN stop(TRUE)
                    ELSE IF ch = Ord("\\") THEN go(1, surplus)
                    ELSE IF ch >= Ord(" ") THEN go(0, surplus)
                    ELSE stop(FALSE)
               [] state = 1 ->
                    IF ch \in {Ord("\""), Ord("\\"), Ord("/"), Ord("n"),
                               Ord("r"), Ord("t"), Ord("b"), Ord("f")}
                    THEN go(0, surplus + 1)
                    ELSE IF ch = Ord("u") THEN go(2, surplus + 3)
                    ELSE stop(FALSE)
               [] OTHER ->
                    IF \/ (ch >= Ord("0") /\ ch <= Ord("9"))
                       \/ (ch >= Ord("A") /\ ch <= Ord("F"))
                    THEN go(IF state = 5 THEN 0 ELSE state + 1, surplus)
                    ELSE stop(FALSE)

\* Line 1118: what is added for one hexadecimal digit.
nxt_conf_json_hex_digit(b) ==
    b - (IF b >= Ord("A") THEN Ord("A") ELSE Ord("0"))

\* Lines 1116-1121: four digits are shifted into utf, a uint32_t that is
\* zero before; the sum stays below 2^16.
nxt_conf_json_hex4(m, pos, utf) ==
    LET RECURSIVE shift(_, _)
        shift(i, u) ==
            IF i = 4
            THEN u
            ELSE shift(i + 1, u * 16 + nxt_conf_json_hex_digit(m[pos + i]))
    IN  shift(0, utf)

\* Lines 1112-1135: the escape \u at pos - 2 and, after a high surrogate,
\* the one that follows it.
RECURSIVE nxt_conf_json_unicode(_, _, _, _)
nxt_conf_json_unicode(m, pos, utf0, utf_high) ==
    LET utf == nxt_conf_json_hex4(m, pos, utf0)
    IN  IF utf < 55296 \/ utf > 56319 \/ utf_high # 0
        THEN [pos |-> pos + 4, utf |-> utf, utf_high |-> utf_high]
        ELSE IF m[pos + 4] # Ord("\\") \/ m[pos + 5] # Ord("u")
        THEN [pos |-> pos + 4, utf |-> 0, utf_high |-> utf]
        ELSE nxt_conf_json_unicode(m, pos + 6, 0, utf)

\* Lines 1077-1154: the bytes between pos and last are decoded.
RECURSIVE nxt_conf_json_string_decode(_, _, _, _)
nxt_conf_json_string_decode(m, pos, last, s) ==
    LET ch == m[pos]
        esc == m[pos + 1]
        next(p, bytes) ==
            IF p # last
            THEN nxt_conf_json_string_decode(m, p, last, s \o bytes)
            ELSE [ok |-> TRUE, pos |-> p, s |-> s \o bytes]
        u == nxt_conf_json_unicode(m, pos + 2, 0, 0)
        pair == (u.utf_high - 55296) * 1024 + (u.utf - 56320)
    IN  IF ch # Ord("\\")
        THEN next(pos + 1, <<ch>>)
        ELSE CASE esc \in {Ord("\""), Ord("\\"), Ord("/")} ->
                    next(pos + 2, <<esc>>)
               [] esc = Ord("n") -> next(pos + 2, <<Ord("\n")>>)
               [] esc = Ord("r") -> next(pos + 2, <<Ord("\r")>>)
               [] esc = Ord("t") -> next(pos + 2, <<Ord("\t")>>)
               [] esc = Ord("b") -> next(pos + 2, <<Ord("backspace")>>)
               [] esc = Ord("f") -> next(pos + 2, <<Ord("\f")>>)
               [] OTHER ->
                    IF u.utf_high # 0
                    THEN IF \/ u.utf_high < 55296
                            \/ u.utf_high > 56319
                            \/ u.utf < 56320
                            \/ u.utf > 57343
                         THEN \* invalid surrogate pair
                              [ok |-> FALSE, pos |-> u.pos, s |-> s]
                         ELSE next(u.pos, nxt_utf8_encode(pair))
                    ELSE next(u.pos, nxt_utf8_encode(u.utf))

\* Every string stored in the value itself.
nxt_conf_json_parse_string_short(m, pos0, end) ==
    LET pos == pos0 + 1
        scan == nxt_conf_json_string_scan(m, pos, end, 0, 0)
        last == scan.last
        d == nxt_conf_json_string_decode(m, pos, last, <<>>)
    IN  IF ~scan.ok \/ last = end
        THEN Failed
        ELSE IF scan.surplus = 0
        THEN Parsed(last + 1, Value("SHORT_STRING", SubSeq(m, pos, last - 1)))
        ELSE IF ~d.ok
        THEN Failed
        ELSE Parsed(d.pos + 1, Value("SHORT_STRING", d.s))

nxt_conf_json_parse_string(m, pos0, end) ==
    LET pos == pos0 + 1
        scan == nxt_conf_json_string_scan(m, pos, end, 0, 0)
        last == scan.last
        size == last - pos - scan.surplus
        type == IF size > NXT_CONF_JSON_STR_SIZE
                THEN "STRING" ELSE "SHORT_STRING"
        d == nxt_conf_json_string_decode(m, pos, last, <<>>)
    IN  IF ~scan.ok \/ last = end
        THEN Failed
        ELSE IF scan.surplus = 0
        THEN Parsed(last + 1, Value(type, SubSeq(m, pos, last - 1)))
        ELSE IF ~d.ok
        THEN Failed
        ELSE Parsed(d.pos + 1, Value(type, d.s))

\* nxt_memcmp(pos, text, n) == 0
\* Lines 616-617: nxt_memcmp is called when fewer than n bytes are left
\* before end, and compares n bytes from pos.
nxt_conf_json_literal_past_end(pos, end, n) == end - pos < n

nxt_conf_json_literal(m, pos, text) ==
    \A i \in 1..Len(text) : m[pos + i - 1] = text[i]

\* nxt_lvlhsh_insert with replace = 0 (nxt_lvlhsh.c), the keys compared by
\* nxt_conf_json_object_hash_test: declined when a member of the same name
\* is in the hash.
nxt_conf_json_object_hash_add(hash, member) ==
    IF \E i \in 1..Len(hash) : hash[i].name.u = member.name.u
    THEN [rc |-> "DECLINED", hash |-> hash]
    ELSE [rc |-> "OK", hash |-> Append(hash, member)]

\* The orders in which nxt_lvlhsh_each may visit the members.
HashOrders == {"insertion", "reverse"}

\* nxt_lvlhsh_each (nxt_lvlhsh.c): the members in the order of the hash.
nxt_lvlhsh_each(hash, order) ==
    IF order = "insertion"
    THEN hash
    ELSE [i \in 1..Len(hash) |-> hash[Len(hash) + 1 - i]]

RECURSIVE nxt_conf_json_parse_value(_, _, _, _)
RECURSIVE nxt_conf_json_parse_elements(_, _, _, _, _)
RECURSIVE nxt_conf_json_parse_members(_, _, _, _, _)

\* The loop of nxt_conf_json_parse_array, lines 904-936, a step at a time,
\* the last step first.  Each returns the position of the closing bracket,
\* or NULL, and the elements.
\* Lines 931-935: the position after the comma and the spaces.
nxt_conf_json_array_element_at(m, end, order, list, pos) ==
    IF pos = end
    THEN [pos |-> NULL, list |-> list]
    ELSE nxt_conf_json_parse_elements(m, pos, end, order, list)

\* Lines 917-929: the position after the element and the spaces.
nxt_conf_json_array_next(m, end, order, list, pos) ==
    IF pos = end THEN [pos |-> NULL, list |-> list]
    ELSE IF m[pos] = Ord("]") THEN [pos |-> pos, list |-> list]
    ELSE IF m[pos] # Ord(",") THEN [pos |-> NULL, list |-> list]
    ELSE nxt_conf_json_array_element_at(
             m, end, order, list, nxt_conf_json_skip_space(m, pos + 1, end))

\* Lines 911-917: the element parsed.
nxt_conf_json_array_element(m, end, order, list, v) ==
    IF v.pos = NULL
    THEN [pos |-> NULL, list |-> list]
    ELSE nxt_conf_json_array_next(m, end, order, Append(list, v.value),
                                  nxt_conf_json_skip_space(m, v.pos, end))

nxt_conf_json_parse_elements(m, pos, end, order, list) ==
    nxt_conf_json_array_element(
        m, end, order, list, nxt_conf_json_parse_value(m, pos, end, order))

\* Lines 938-956: the array of the elements.
nxt_conf_json_array_of(l) ==
    IF l.pos = NULL
    THEN Failed
    ELSE Parsed(l.pos + 1, Value("ARRAY", l.list))

\* Lines 886-904: the position after the bracket and the spaces.
nxt_conf_json_array_at(m, end, order, pos) ==
    IF pos = end
    THEN Failed
    ELSE IF m[pos] = Ord("]")
    THEN Parsed(pos + 1, Value("ARRAY", <<>>))
    ELSE nxt_conf_json_array_of(
             nxt_conf_json_parse_elements(m, pos, end, order, <<>>))

nxt_conf_json_parse_array(m, pos0, end, order) ==
    nxt_conf_json_array_at(m, end, order,
                           nxt_conf_json_skip_space(m, pos0 + 1, end))

\* The loop of nxt_conf_json_parse_object, lines 697-756, a step at a time,
\* the last step first.  Each returns the position of the closing brace, or
\* NULL, and the members.
\* Lines 751-755: the position after the comma and the spaces.
nxt_conf_json_object_member_at(m, end, order, hash, pos) ==
    IF pos = end
    THEN [pos |-> NULL, hash |-> hash]
    ELSE nxt_conf_json_parse_members(m, pos, end, order, hash)

\* Lines 737-749: the position after the value and the spaces.
nxt_conf_json_object_next(m, end, order, hash, pos) ==
    IF pos = end THEN [pos |-> NULL, hash |-> hash]
    ELSE IF m[pos] = Ord("}") THEN [pos |-> pos, hash |-> hash]
    ELSE IF m[pos] # Ord(",") THEN [pos |-> NULL, hash |-> hash]
    ELSE nxt_conf_json_object_member_at(
             m, end, order, hash, nxt_conf_json_skip_space(m, pos + 1, end))

\* Lines 731-737: the value parsed into the member added last.
nxt_conf_json_object_value(m, end, order, hash, v) ==
    IF v.pos = NULL
    THEN [pos |-> NULL, hash |-> hash]
    ELSE nxt_conf_json_object_next(
             m, end, order, [hash EXCEPT ![Len(hash)].value = v.value],
             nxt_conf_json_skip_space(m, v.pos, end))

\* Lines 725-731: the position after the colon and the spaces.
nxt_conf_json_object_value_at(m, end, order, hash, pos) ==
    IF pos = end
    THEN [pos |-> NULL, hash |-> hash]
    ELSE nxt_conf_json_object_value(
             m, end, order, hash,
             nxt_conf_json_parse_value(m, pos, end, order))

\* Lines 719-725: the position after the name and the spaces.
nxt_conf_json_object_colon(m, end, order, hash, pos) ==
    IF pos = end \/ m[pos] # Ord(":")
    THEN [pos |-> NULL, hash |-> hash]
    ELSE nxt_conf_json_object_value_at(
             m, end, order, hash, nxt_conf_json_skip_space(m, pos + 1, end))

\* Lines 713-719: the member added to the hash.
nxt_conf_json_object_added(m, end, order, hash, pos, add) ==
    IF add.rc # "OK"
    THEN [pos |-> NULL, hash |-> hash]
    ELSE nxt_conf_json_object_colon(m, end, order, add.hash,
                                    nxt_conf_json_skip_space(m, pos, end))

\* Lines 707-713: the name parsed.
nxt_conf_json_object_name(m, end, order, hash, name) ==
    IF name.pos = NULL
    THEN [pos |-> NULL, hash |-> hash]
    ELSE nxt_conf_json_object_added(
             m, end, order, hash, name.pos,
             nxt_conf_json_object_hash_add(
                 hash, Member(name.value, Value("NULL", 0))))

nxt_conf_json_parse_members(m, pos, end, order, hash) ==
    IF m[pos] # Ord("\"")
    THEN [pos |-> NULL, hash |-> hash]
    ELSE nxt_conf_json_object_name(m, end, order, hash,
                                   nxt_conf_json_parse_string(m, pos, end))

\* Lines 758-793: the object of the members, in the order of the hash.
nxt_conf_json_object_of(h, order) ==
    IF h.pos = NULL
    THEN Failed
    ELSE Parsed(h.pos + 1, Value("OBJECT", nxt_lvlhsh_each(h.hash, order)))

\* Lines 681-697: the position after the brace and the spaces.
nxt_conf_json_object_at(m, end, order, pos) ==
    IF pos = end
    THEN Failed
    ELSE IF m[pos] = Ord("}")
    THEN Parsed(pos + 1, Value("OBJECT", <<>>))
    ELSE nxt_conf_json_object_of(
             nxt_conf_json_parse_members(m, pos, end, order, <<>>), order)

nxt_conf_json_parse_object(m, pos0, end, order) ==
    nxt_conf_json_object_at(m, end, order,
                            nxt_conf_json_skip_space(m, pos0 + 1, end))

nxt_conf_json_parse_value(m, pos, end, order) ==
    LET ch == m[pos]
    IN  CASE ch = Ord("{") -> nxt_conf_json_parse_object(m, pos, end, order)
          [] ch = Ord("[") -> nxt_conf_json_parse_array(m, pos, end, order)
          [] ch = Ord("\"") -> nxt_conf_json_parse_string(m, pos, end)
          [] ch = Ord("t") ->
                IF \/ end - pos >= 4
                   \/ nxt_conf_json_literal(m, pos, Str(<<"t", "r", "u", "e">>))
                THEN Parsed(pos + 4, Value("BOOLEAN", 1))
                ELSE Failed
          [] ch = Ord("f") ->
                IF \/ end - pos >= 5
                   \/ nxt_conf_json_literal(m, pos,
                                            Str(<<"f", "a", "l", "s", "e">>))
                THEN Parsed(pos + 5, Value("BOOLEAN", 0))
                ELSE Failed
          [] ch = Ord("n") ->
                IF \/ end - pos >= 4
                   \/ nxt_conf_json_literal(m, pos, Str(<<"n", "u", "l", "l">>))
                THEN Parsed(pos + 4, Value("NULL", 0))
                ELSE Failed
          [] OTHER ->
                IF ch = Ord("-") \/ ch - Ord("0") <= 9
                THEN nxt_conf_json_parse_number(m, pos, end)
                ELSE Failed

\* nxt_conf_json_parse returns no value.
NoValue == Value("none", 0)

\* The bytes that may lie in memory after the text.
MemoryAfter ==
    { [i \in 1..8 |-> 0],
      Str(<<"u", "e", "]">>) \o [i \in 1..5 |-> 0],
      Str(<<"e", "}">>) \o [i \in 1..6 |-> 0] }

\* nxt_conf_json_parse of the text in under env: the memory after the
\* text, whether the pool has memory, the order of the hash.
\* Lines 563-571 of nxt_conf_json_parse: the value parsed; bytes other than
\* spaces after it are an error.
nxt_conf_json_parse_end(m, end, v) ==
    IF v.pos = NULL THEN NoValue
    ELSE IF nxt_conf_json_skip_space(m, v.pos, end) # end THEN NoValue
    ELSE v.value

\* Lines 555-563: the position after the leading spaces.
nxt_conf_json_parse_at(m, end, order, pos) ==
    IF pos = end
    THEN NoValue
    ELSE nxt_conf_json_parse_end(
             m, end, nxt_conf_json_parse_value(m, pos, end, order))

nxt_conf_json_parse(in, env) ==
    IF ~env.memory
    THEN NoValue
    ELSE nxt_conf_json_parse_at(
             in \o env.after, Len(in) + 1, env.order,
             nxt_conf_json_skip_space(in \o env.after, 1, Len(in) + 1))

(***************************************************************************)
(* nxt_conf_json.c: the printer.  pretty tells whether a pretty context is *)
(* passed; level and more_space are its fields.                            *)
(***************************************************************************)
\* nxt_length("-9223372036854775808")
NXT_INT64_T_LEN == 20

\* The uint64_t of a decimal constant of the source.
RECURSIVE U64Dec(_)
U64Dec(digits) ==
    IF digits = <<>>
    THEN U64(0)
    ELSE U64MulAdd(U64Dec(SubSeq(digits, 1, Len(digits) - 1)), 10,
                   digits[Len(digits)]).v

\* The decimal digits of a uint64_t.
RECURSIVE U64Digits(_)
U64Digits(x) ==
    LET d == U64DivMod(x, 10)
    IN  IF d.q = U64(0)
        THEN <<Ord("0") + d.r>>
        ELSE Append(U64Digits(d.q), Ord("0") + d.r)

\* nxt_sprintf("%L") (nxt_sprintf.c): an int64_t in decimal.
nxt_sprintf_L(num) ==
    IF I64Negative(num)
    THEN <<Ord("-")>> \o U64Digits(U64Neg(num))
    ELSE U64Digits(num)

\* num <= k for an int64_t num and a constant k >= 0.
I64AtMost(num, k) == I64Negative(num) \/ ~U64Less(k, num)

\* The least of the three sizes for every integer.
nxt_conf_json_print_integer_size_least(value) == Len("-9999")

\* nxt_conf_json_print_integer(NULL, value).  llabs of the least int64_t is
\* that number itself.
nxt_conf_json_print_integer_size(value) ==
    LET num == IF I64Negative(value.u) THEN U64Neg(value.u) ELSE value.u
    IN  IF I64AtMost(num, U64Dec(<<9, 9, 9, 9>>))
        THEN Len("-9999")
        ELSE IF I64AtMost(num, U64Dec(<<9, 9, 9, 9, 9, 9, 9, 9, 9, 9, 9>>))
        THEN Len("-99999999999")
        ELSE NXT_INT64_T_LEN

nxt_conf_json_print_integer(value) == nxt_sprintf_L(value.u)

\* One byte more for every byte that is escaped.
nxt_conf_json_escape_size_one(src) ==
    Cardinality({ i \in 1..Len(src) :
                    src[i] = Ord("\\") \/ src[i] = Ord("\"") \/ src[i] <= 31 })

\* nxt_conf_json_escape(NULL, src, size)
RECURSIVE nxt_conf_json_escape_size(_)
nxt_conf_json_escape_size(src) ==
    IF src = <<>>
    THEN 0
    ELSE LET ch == Head(src)
         IN  (IF ch = Ord("\\") \/ ch = Ord("\"")
              THEN 1
              ELSE IF ch <= 31
              THEN IF ch \in {Ord("\n"), Ord("\r"), Ord("\t"),
                              Ord("backspace"), Ord("\f")}
                   THEN 1
                   ELSE Len("\\u001F") - 1
              ELSE 0)
             + nxt_conf_json_escape_size(Tail(src))

\* The bytes copied as they are.
nxt_conf_json_escape_plain(src) == src

\* nxt_conf_json_escape(dst, src, size): the bytes written.
RECURSIVE nxt_conf_json_escape(_)
nxt_conf_json_escape(src) ==
    IF src = <<>>
    THEN <<>>
    ELSE LET ch == Head(src)
             lo == ch % 16
         IN  (IF ch > 31
              THEN (IF ch = Ord("\\") \/ ch = Ord("\"")
                    THEN <<Ord("\\")>> ELSE <<>>) \o <<ch>>
              ELSE <<Ord("\\")>> \o
                   (CASE ch = Ord("\n") -> <<Ord("n")>>
                      [] ch = Ord("\r") -> <<Ord("r")>>
                      [] ch = Ord("\t") -> <<Ord("t")>>
                      [] ch = Ord("backspace") -> <<Ord("b")>>
                      [] ch = Ord("\f") -> <<Ord("f")>>
                      [] OTHER ->
                            << Ord("u"), Ord("0"), Ord("0"),
                               Ord("0") + (ch \div 16),
                               IF lo < 10 THEN Ord("0") + lo
                                          ELSE Ord("A") + lo - 10 >>))
             \o nxt_conf_json_escape(Tail(src))

nxt_conf_json_print_string_size(value) ==
    2 + Len(value.u) + nxt_conf_json_escape_size(value.u)

nxt_conf_json_print_string(value) ==
    <<Ord("\"")>> \o nxt_conf_json_escape(value.u) \o <<Ord("\"")>>

nxt_conf_json_newline == <<Ord("\r"), Ord("\n")>>

nxt_conf_json_indentation(level) == [i \in 1..level |-> Ord("\t")]

\* nxt_conf_json_print_value(NULL, value, pretty): the size phase.
RECURSIVE nxt_conf_json_print_value_size(_, _, _)

nxt_conf_json_print_array_size(value, pretty, level) ==
    LET n == Len(value.u)
        len == 2 + SeqSum([i \in 1..n |->
                   nxt_conf_json_print_value_size(value.u[i], pretty, level + 1)
                   + (IF pretty THEN (level + 1) + 2 ELSE 0)])
    IN  len + (IF pretty /\ n # 0 THEN level + 2 ELSE 0) + n

nxt_conf_json_print_object_size(value, pretty, level) ==
    LET n == Len(value.u)
        len == 2 + SeqSum([i \in 1..n |->
                   nxt_conf_json_print_string_size(value.u[i].name) + 1
                   + nxt_conf_json_print_value_size(value.u[i].value, pretty,
                                                    level + 1)
                   + 1
                   + (IF pretty THEN (level + 1) + 1 + 2 + 2 ELSE 0)])
    IN  len + (IF pretty THEN level + 2 ELSE 0)

nxt_conf_json_print_value_size(value, pretty, level) ==
    CASE value.type = "NULL" -> Len("null")
      [] value.type = "BOOLEAN" ->
            IF value.u # 0 THEN Len("true") ELSE Len("false")
      [] value.type = "INTEGER" -> nxt_conf_json_print_integer_size(value)
      [] value.type = "NUMBER" -> 0
      [] value.type \in {"SHORT_STRING", "STRING"} ->
            nxt_conf_json_print_string_size(value)
      [] value.type = "ARRAY" ->
            nxt_conf_json_print_array_size(value, pretty, level)
      [] value.type = "OBJECT" ->
            nxt_conf_json_print_object_size(value, pretty, level)

\* nxt_conf_json_print_value(pos, value, pretty): the bytes written and the
\* more_space flag of the context afterwards.
Printed(out, more_space) == [out |-> out, more_space |-> more_space]

RECURSIVE nxt_conf_json_print_value(_, _, _, _)
RECURSIVE nxt_conf_json_print_elements(_, _, _, _, _)
RECURSIVE nxt_conf_json_print_members(_, _, _, _, _)

\* Lines 1465-1476: the elements from the n-th on, each after a comma.
nxt_conf_json_print_elements(value, n, pretty, level, more_space) ==
    IF n > Len(value.u)
    THEN Printed(<<>>, more_space)
    ELSE LET sep == <<Ord(",")>>
                    \o (IF pretty
                        THEN nxt_conf_json_newline
                             \o nxt_conf_json_indentation(level)
                        ELSE <<>>)
             e == nxt_conf_json_print_value(
                      value.u[n], pretty, level,
                      IF pretty THEN FALSE ELSE more_space)
             rest == nxt_conf_json_print_elements(value, n + 1, pretty, level,
                                                  e.more_space)
         IN  Printed(sep \o e.out \o rest.out, rest.more_space)

nxt_conf_json_print_array(value, pretty, level, more_space) ==
    LET open == IF pretty
                THEN nxt_conf_json_newline
                     \o nxt_conf_json_indentation(level + 1)
                ELSE <<>>
        first == nxt_conf_json_print_value(value.u[1], pretty, level + 1,
                                           more_space)
        rest == nxt_conf_json_print_elements(value, 2, pretty, level + 1,
                                             first.more_space)
        close == IF pretty
                 THEN nxt_conf_json_newline \o nxt_conf_json_indentation(level)
                 ELSE <<>>
    IN  IF Len(value.u) = 0
        THEN Printed(<<Ord("["), Ord("]")>>, more_space)
        ELSE Printed(<<Ord("[")>> \o open \o first.out \o rest.out \o close
                     \o <<Ord("]")>>,
                     IF pretty THEN TRUE ELSE rest.more_space)

\* Lines 1556-1587: the members from the n-th on.
nxt_conf_json_print_members(value, n, pretty, level, more_space) ==
    LET member == value.u[n]
        head == (IF pretty THEN nxt_conf_json_indentation(level) ELSE <<>>)
                \o nxt_conf_json_print_string(member.name)
                \o <<Ord(":")>>
                \o (IF pretty THEN <<Ord(" ")>> ELSE <<>>)
        v == nxt_conf_json_print_value(member.value, pretty, level, more_space)
        sep == <<Ord(",")>>
               \o (IF pretty
                   THEN nxt_conf_json_newline
                        \o (IF v.more_space THEN nxt_conf_json_newline
                                            ELSE <<>>)
                   ELSE <<>>)
        rest == nxt_conf_json_print_members(
                    value, n + 1, pretty, level,
                    IF pretty THEN FALSE ELSE v.more_space)
    IN  IF n = Len(value.u)
        THEN Printed(head \o v.out, v.more_space)
        ELSE Printed(head \o v.out \o sep \o rest.out, rest.more_space)

nxt_conf_json_print_object(value, pretty, level, more_space) ==
    LET open == IF pretty THEN nxt_conf_json_newline ELSE <<>>
        members == nxt_conf_json_print_members(value, 1, pretty, level + 1,
                                               more_space)
        close == IF pretty
                 THEN nxt_conf_json_newline \o nxt_conf_json_indentation(level)
                 ELSE <<>>
    IN  IF Len(value.u) = 0
        THEN Printed(<<Ord("{"), Ord("}")>>, more_space)
        ELSE Printed(<<Ord("{")>> \o open \o members.out \o close
                     \o <<Ord("}")>>,
                     IF pretty THEN TRUE ELSE members.more_space)

nxt_conf_json_print_value(value, pretty, level, more_space) ==
    CASE value.type = "NULL" ->
            Printed(Str(<<"n", "u", "l", "l">>), more_space)
      [] value.type = "BOOLEAN" ->
            Printed(IF value.u # 0
                    THEN Str(<<"t", "r", "u", "e">>)
                    ELSE Str(<<"f", "a", "l", "s", "e">>), more_space)
      [] value.type = "INTEGER" ->
            Printed(nxt_conf_json_print_integer(value), more_space)
      [] value.type = "NUMBER" -> Printed(<<>>, more_space)
      [] value.type \in {"SHORT_STRING", "STRING"} ->
            Printed(nxt_conf_json_print_string(value), more_space)
      [] value.type = "ARRAY" ->
            nxt_conf_json_print_array(value, pretty, level, more_space)
      [] value.type = "OBJECT" ->
            nxt_conf_json_print_object(value, pretty, level, more_space)

(***************************************************************************)
(* nxt_conf_json.c: paths and edits.  A path is its bytes; a position in   *)
(* it counts from 1, and end is one after the last byte.  An op chain is   *)
(* the sequence of its nodes, each the ctx of the one before (op->next is  *)
(* never set); the empty sequence is the NULL chain.                       *)
(***************************************************************************)
\* nxt_conf_json_op_t after nxt_mp_zget: action Pass, index 0, ctx NULL.
\* The ctx of a Create is its member, of a Replace its value; they are
\* kept in member.
NoMember == Member(NoValue, NoValue)

Op(action, index, member) ==
    [action |-> action, index |-> index, member |-> member]

\* What nxt_conf_json_op_compile returns, and the chain at *ops.
Compiled(rc, ops) == [rc |-> rc, ops |-> ops]

\* nxt_conf_json_path_next_token: the token after the byte at start, the
\* new parse->start and parse->last.
nxt_conf_json_path_next_token(path, start) ==
    LET end == Len(path) + 1
        RECURSIVE scan(_)
        scan(p) == IF p < end /\ path[p] # Ord("/") THEN scan(p + 1) ELSE p
    IN  [start |-> scan(start + 1),
         last |-> scan(start + 1) >= end,
         token |-> SubSeq(path, start + 1, scan(start + 1) - 1)]

\* The index of the member counted from 1.
nxt_conf_json_object_get_member_from_one(value, name, index) ==
    IF value.type # "OBJECT"
    THEN [found |-> FALSE, index |-> index, value |-> NoValue]
    ELSE IF \E n \in 1..Len(value.u) : value.u[n].name.u = name
    THEN LET n == CHOOSE k \in 1..Len(value.u) :
                     /\ value.u[k].name.u = name
                     /\ \A j \in 1..(k - 1) : value.u[j].name.u # name
         IN  [found |-> TRUE, index |-> n, value |-> value.u[n].value]
    ELSE [found |-> FALSE, index |-> index, value |-> NoValue]

\* nxt_conf_json_object_get_member: whether a member has the name, its
\* index (from 0; index is what *index held before when none has it) and
\* its value.
nxt_conf_json_object_get_member(value, name, index) ==
    IF value.type # "OBJECT"
    THEN [found |-> FALSE, index |-> index, value |-> NoValue]
    ELSE IF \E n \in 1..Len(value.u) : value.u[n].name.u = name
    THEN LET n == CHOOSE k \in 1..Len(value.u) :
                     /\ value.u[k].name.u = name
                     /\ \A j \in 1..(k - 1) : value.u[j].name.u # name
         IN  [found |-> TRUE, index |-> n - 1, value |-> value.u[n].value]
    ELSE [found |-> FALSE, index |-> index, value |-> NoValue]

\* nxt_conf_json_get_value, the loop from the position start on: the value
\* the path names, or NoValue for NULL.
RECURSIVE nxt_conf_json_get_value_from(_, _, _)

\* Lines 158-175: the token taken.
nxt_conf_json_get_value_token(value, path, parse) ==
    IF Len(parse.token) = 0
    THEN IF parse.last THEN value ELSE NoValue
    ELSE LET g == nxt_conf_json_object_get_member(value, parse.token, 0)
         IN  IF ~g.found THEN NoValue
             ELSE IF parse.last THEN g.value
             ELSE nxt_conf_json_get_value_from(g.value, path, parse.start)

nxt_conf_json_get_value_from(value, path, start) ==
    nxt_conf_json_get_value_token(
        value, path, nxt_conf_json_path_next_token(path, start))

nxt_conf_json_get_value(value, path) ==
    nxt_conf_json_get_value_from(value, path, 1)

\* A NULL value for a member that is not there taken as a Delete.
nxt_conf_json_op_terminal_absent(g, value, token, ops) ==
    IF value = NoValue
    THEN Compiled("OK", Append(ops, Op("DELETE", g.index, NoMember)))
    ELSE Compiled("OK",
                  Append(ops, Op("REPLACE", g.index, Member(NoValue, value))))

\* A value for a member always taken as a Create, the member there or not.
nxt_conf_json_op_terminal_create(g, value, token, ops) ==
    IF value = NoValue
    THEN IF ~g.found
         THEN Compiled("DECLINED", Append(ops, Op("PASS", g.index, NoMember)))
         ELSE Compiled("OK", Append(ops, Op("DELETE", g.index, NoMember)))
    ELSE Compiled("OK",
                  Append(ops,
                         Op("CREATE", g.index,
                            Member(Value(IF Len(token) > NXT_CONF_JSON_STR_SIZE
                                         THEN "STRING" ELSE "SHORT_STRING",
                                         token),
                                   value))))

\* nxt_conf_json_op_compile, lines 281-326: the action of the last node.
\* value is NoValue for a NULL value.
nxt_conf_json_op_terminal(g, value, token, ops) ==
    IF value = NoValue
    THEN IF ~g.found
         THEN Compiled("DECLINED", Append(ops, Op("PASS", g.index, NoMember)))
         ELSE Compiled("OK", Append(ops, Op("DELETE", g.index, NoMember)))
    ELSE IF ~g.found
    THEN Compiled("OK",
                  Append(ops,
                         Op("CREATE", g.index,
                            Member(Value(IF Len(token) > NXT_CONF_JSON_STR_SIZE
                                         THEN "STRING" ELSE "SHORT_STRING",
                                         token),
                                   value))))
    ELSE Compiled("OK",
                  Append(ops, Op("REPLACE", g.index, Member(NoValue, value))))

RECURSIVE nxt_conf_json_op_compile_from(_, _, _, _, _)

\* Lines 268-279: the member looked up.
nxt_conf_json_op_member(value, path, parse, g, ops) ==
    IF parse.last
    THEN nxt_conf_json_op_terminal(g, value, parse.token, ops)
    ELSE IF ~g.found
    THEN Compiled("DECLINED", Append(ops, Op("PASS", g.index, NoMember)))
    ELSE nxt_conf_json_op_compile_from(
             g.value, value, path, parse.start,
             Append(ops, Op("PASS", g.index, NoMember)))

\* Lines 266-268: the token taken.
nxt_conf_json_op_token(object, value, path, parse, ops) ==
    nxt_conf_json_op_member(
        value, path, parse,
        nxt_conf_json_object_get_member(object, parse.token, 0), ops)

\* Lines 257-279: the loop from the position start on.
nxt_conf_json_op_compile_from(object, value, path, start, ops) ==
    nxt_conf_json_op_token(object, value, path,
                           nxt_conf_json_path_next_token(path, start), ops)

\* nxt_conf_json_op_compile(object, value, ops, path, pool)
nxt_conf_json_op_compile(object, value, path, memory) ==
    IF ~memory
    THEN Compiled("ERROR", <<>>)
    ELSE nxt_conf_json_op_compile_from(object, value, path, 1, <<>>)

\* What nxt_conf_json_copy_value returns, and the value at dst.
Copied(rc, value) == [rc |-> rc, value |-> value]

RECURSIVE nxt_conf_json_copy_value(_, _)
RECURSIVE nxt_conf_json_copy_members(_, _, _, _, _, _)
RECURSIVE nxt_conf_json_copy_loop(_, _, _, _, _, _, _)
RECURSIVE nxt_conf_json_copy_object(_, _)

\* Lines 461-480: while (s != index), the members from s (from 0) to index
\* are copied, their values under pass_op.  An index before s or after the
\* members leaves the arrays.
nxt_conf_json_copy_members(src, s, index, pass_op, members, rc) ==
    IF s = index \/ rc # "OK"
    THEN [rc |-> rc, s |-> s, members |-> members]
    ELSE IF s > index \/ s >= Len(src.u)
    THEN [rc |-> "UNDEFINED", s |-> s, members |-> members]
    ELSE nxt_conf_json_copy_members(
             src, s + 1, index, pass_op,
             Append(members,
                    Member(nxt_conf_json_copy_value(src.u[s + 1].name,
                                                    <<>>).value,
                           nxt_conf_json_copy_value(src.u[s + 1].value,
                                                    pass_op).value)),
             nxt_conf_json_copy_value(src.u[s + 1].value, pass_op).rc)

\* The loop left after its body has run once.
nxt_conf_json_copy_while_once(src, count, s, index, pass_op, op, members) ==
    Copied("OK", Value(src.type, members))

\* Line 534: while (d != count).  The members copied so far are d of them.
\* With nothing left to copy and d not count the loop would not end.
nxt_conf_json_copy_while(src, count, s, index, pass_op, op, members) ==
    IF Len(members) = count
    THEN Copied("OK", Value(src.type, members))
    ELSE IF Len(members) > count
            \/ (pass_op = <<>> /\ op = <<>> /\ s = Len(src.u))
    THEN Copied("UNDEFINED", NoValue)
    ELSE nxt_conf_json_copy_loop(src, count, s, index, pass_op, op, members)

\* Lines 482-532: after the members before index, the pass_op is dropped or
\* the action of op is done; op->next is NULL.
nxt_conf_json_copy_action(src, count, index, pass_op, op, m) ==
    IF m.rc # "OK"
    THEN Copied(m.rc, NoValue)
    ELSE IF pass_op # <<>>
    THEN nxt_conf_json_copy_while(src, count, m.s, index, <<>>, op, m.members)
    ELSE IF op = <<>>
    THEN nxt_conf_json_copy_while(src, count, m.s, index, <<>>, <<>>,
                                  m.members)
    ELSE CASE op[1].action = "PASS" ->
                nxt_conf_json_copy_while(src, count, m.s, index + 1, Tail(op),
                                         <<>>, m.members)
           [] op[1].action = "CREATE" ->
                nxt_conf_json_copy_while(
                    src, count, m.s, index, <<>>, <<>>,
                    Append(m.members,
                           Member(nxt_conf_json_copy_value(
                                      op[1].member.name, <<>>).value,
                                  op[1].member.value)))
           [] op[1].action = "REPLACE" ->
                IF m.s >= Len(src.u)
                THEN Copied("UNDEFINED", NoValue)
                ELSE nxt_conf_json_copy_while(
                         src, count, m.s + 1, index, <<>>, <<>>,
                         Append(m.members,
                                Member(nxt_conf_json_copy_value(
                                           src.u[m.s + 1].name, <<>>).value,
                                       op[1].member.value)))
           [] op[1].action = "DELETE" ->
                IF m.s >= Len(src.u)
                THEN Copied("UNDEFINED", NoValue)
                ELSE nxt_conf_json_copy_while(src, count, m.s + 1, index,
                                              <<>>, <<>>, m.members)

\* The index of the op taken for a Create as well.
nxt_conf_json_copy_index_first(src, index, pass_op, op) ==
    IF pass_op # <<>> THEN index
    ELSE IF op = <<>> THEN Len(src.u)
    ELSE op[1].index

\* Lines 456-459: the index the body copies up to.
nxt_conf_json_copy_index(src, index, pass_op, op) ==
    IF pass_op # <<>> THEN index
    ELSE IF op = <<>> \/ op[1].action = "CREATE" THEN Len(src.u)
    ELSE op[1].index

\* Lines 455-532: the body of the do loop.
nxt_conf_json_copy_loop(src, count, s, index, pass_op, op, members) ==
    nxt_conf_json_copy_action(
        src, count, nxt_conf_json_copy_index(src, index, pass_op, op),
        pass_op, op,
        nxt_conf_json_copy_members(
            src, s, nxt_conf_json_copy_index(src, index, pass_op, op),
            pass_op, members, "OK"))

\* The count of the members taken from the source whatever the op is.
nxt_conf_json_copy_object_same(src, op) ==
    nxt_conf_json_copy_loop(src, Len(src.u), 0, 0, <<>>, op, <<>>)

\* The count of the members not lowered for a Delete.
nxt_conf_json_copy_object_grown(src, op) ==
    nxt_conf_json_copy_loop(
        src,
        IF op # <<>> /\ op[1].action = "CREATE"
        THEN Len(src.u) + 1 ELSE Len(src.u),
        0, 0, <<>>, op, <<>>)

\* nxt_conf_json_copy_object(dst, src, op, pool)
nxt_conf_json_copy_object(src, op) ==
    nxt_conf_json_copy_loop(
        src,
        IF op = <<>> THEN Len(src.u)
        ELSE CASE op[1].action = "CREATE" -> Len(src.u) + 1
               [] op[1].action = "DELETE" -> Len(src.u) - 1
               [] OTHER -> Len(src.u),
        0, 0, <<>>, op, <<>>)

\* The copy with no look at the type of what the op is applied to.
nxt_conf_json_copy_value_any(src, op) ==
    CASE src.type = "ARRAY" ->
            Copied("OK",
                   Value("ARRAY",
                         [n \in 1..Len(src.u) |->
                             nxt_conf_json_copy_value(src.u[n], <<>>).value]))
      [] src.type = "OBJECT" -> nxt_conf_json_copy_object(src, op)
      [] OTHER -> Copied("OK", Value(src.type, src.u))

\* nxt_conf_json_copy_value(dst, src, op, pool)
nxt_conf_json_copy_value(src, op) ==
    IF op # <<>> /\ src.type # "OBJECT"
    THEN Copied("ERROR", NoValue)
    ELSE CASE src.type = "ARRAY" ->
                Copied("OK",
                       Value("ARRAY",
                             [n \in 1..Len(src.u) |->
                                 nxt_conf_json_copy_value(src.u[n],
                                                          <<>>).value]))
           [] src.type = "OBJECT" -> nxt_conf_json_copy_object(src, op)
           [] OTHER -> Copied("OK", Value(src.type, src.u))

\* nxt_conf_json_clone_value(value, op, pool): the copy, or NoValue for NULL.
nxt_conf_json_clone_value(value, op, memory) ==
    IF ~memory
    THEN NoValue
    ELSE IF nxt_conf_json_copy_value(value, op).rc # "OK"
    THEN NoValue
    ELSE nxt_conf_json_copy_value(value, op).value

(***************************************************************************)
(* Where the storage of a copy lies.  A value of the type STRING, ARRAY or *)
(* OBJECT holds a pointer to storage of its own; the other types are held  *)
(* in the value itself.  The storage of a copy is in "pool", the pool      *)
(* passed to nxt_conf_json_clone_value, or is "value", the storage the     *)
(* value passed to nxt_conf_json_op_compile points to.                     *)
(***************************************************************************)
\* dst = *value (lines 505 and 519): the pointer of the value is copied.
nxt_conf_json_assign_storage(value) ==
    IF value.type \in {"STRING", "ARRAY", "OBJECT"} THEN {"value"} ELSE {}

RECURSIVE nxt_conf_json_copy_value_storage(_, _)

\* nxt_conf_json_copy_object: the member array is allocated in the pool;
\* the member at the index of a Pass is copied under the next node, that
\* of a Replace has its name copied and the value assigned, that of a
\* Delete is left out, the others are copied; the member of a Create has
\* its name copied and its value assigned.
nxt_conf_json_copy_object_storage(src, op) ==
    {"pool"}
    \cup UNION { IF op # <<>> /\ op[1].action # "CREATE"
                    /\ op[1].index = n - 1
                 THEN CASE op[1].action = "PASS" ->
                             nxt_conf_json_copy_value_storage(
                                 src.u[n].name, <<>>)
                             \cup nxt_conf_json_copy_value_storage(
                                      src.u[n].value, Tail(op))
                        [] op[1].action = "REPLACE" ->
                             nxt_conf_json_copy_value_storage(
                                 src.u[n].name, <<>>)
                             \cup nxt_conf_json_assign_storage(
                                      op[1].member.value)
                        [] OTHER -> {}
                 ELSE nxt_conf_json_copy_value_storage(src.u[n].name, <<>>)
                      \cup nxt_conf_json_copy_value_storage(src.u[n].value,
                                                            <<>>) :
                 n \in 1..Len(src.u) }
    \cup (IF op # <<>> /\ op[1].action = "CREATE"
          THEN nxt_conf_json_copy_value_storage(op[1].member.name, <<>>)
               \cup nxt_conf_json_assign_storage(op[1].member.value)
          ELSE {})

\* nxt_conf_json_copy_value: a string is duplicated into the pool, an
\* array allocated in it and its elements copied.
nxt_conf_json_copy_value_storage(src, op) ==
    CASE src.type = "STRING" -> {"pool"}
      [] src.type = "ARRAY" ->
            {"pool"}
            \cup UNION { nxt_conf_json_copy_value_storage(src.u[n], <<>>) :
                           n \in 1..Len(src.u) }
      [] src.type = "OBJECT" -> nxt_conf_json_copy_object_storage(src, op)
      [] OTHER -> {}

(***************************************************************************)
(* Configuration texts.  A text is kept with what it was made of: the      *)
(* digits of a number, the content a string literal stands for by the      *)
(* rules of the format, the keys of an object.                             *)
(***************************************************************************)
\* pieces of a string literal, members of an object, elements of an array
MaxPieces == 2
MaxMembers == 3
MaxElements == 2

\* kind is "number", "string", "object", "array" or "other"; at is where
\* the number, string or object begins in the text.
Doc(kind, text, neg, digits, bytes, keys) ==
    [kind |-> kind, text |-> text, at |-> 1, neg |-> neg, digits |-> digits,
     bytes |-> bytes, keys |-> keys]

Repeat(s, n) == [i \in 1..(n * Len(s)) |-> s[((i - 1) % Len(s)) + 1]]

RECURSIVE Concat(_)
Concat(ss) == IF ss = <<>> THEN <<>> ELSE Head(ss) \o Concat(Tail(ss))

\* Numbers: the digits that sit at the limit of 64 bits, and small ones.
Cutoff63 == <<9, 2, 2, 3, 3, 7, 2, 0, 3, 6, 8, 5, 4, 7, 7, 5, 8, 0>>

Magnitudes ==
    { <<0>>, <<7>>, <<0, 1>>, <<9, 9, 9, 9>>, <<1, 0, 0, 0, 0>>,
      Repeat(<<9>>, 11), <<1>> \o Repeat(<<0>>, 11),
      Repeat(<<9>>, 19), Repeat(<<9>>, 20), Repeat(<<9>>, 21),
      <<1, 8, 4, 4, 6, 7, 4, 4, 0, 7, 3, 7, 0, 9, 5, 5, 1, 6, 1, 5>>,
      <<1, 8, 4, 4, 6, 7, 4, 4, 0, 7, 3, 7, 0, 9, 5, 5, 1, 6, 1, 6>>,
      <<1, 8, 4, 4, 6, 7, 4, 4, 0, 7, 3, 7, 0, 9, 5, 5, 1, 6, 2, 3>>,
      <<2, 7, 6, 7, 0, 1, 1, 6, 1, 1, 0, 5, 6, 4, 3, 2, 7, 4, 2, 4>> }
    \cup { Cutoff63 \o <<d>> : d \in 0..9 }
    \cup { Cutoff63 \o <<d, 0>> : d \in 0..9 }
    \cup { SubSeq(Cutoff63, 1, 17) \o <<d, 9>> : d \in 0..9 }

NumberDocs ==
    { Doc("number",
          (IF neg THEN <<Ord("-")>> ELSE <<>>)
          \o [i \in 1..Len(digits) |-> Ord("0") + digits[i]],
          neg, digits, <<>>, <<>>) :
        neg \in BOOLEAN, digits \in Magnitudes }

\* Strings: a piece is some bytes of a literal and the content they stand
\* for.
Piece(chars, bytes) == [text |-> Str(chars), bytes |-> bytes]

Pieces ==
    { Piece(<<"a">>, <<97>>),
      Piece(<<"\\", "n">>, <<10>>),
      Piece(<<"\\", "\"">>, <<34>>),
      Piece(<<"\\", "/">>, <<47>>),
      Piece(<<"\\", "\\">>, <<92>>),
      Piece(<<"\\", "u", "0", "0", "0", "8">>, <<8>>),
      Piece(<<"\\", "u", "0", "0", "6", "1">>, <<97>>),
      Piece(<<"\\", "u", "0", "0", "0", "A">>, <<10>>),
      Piece(<<"\\", "u", "0", "0", "1", "F">>, <<31>>),
      Piece(<<"\\", "u", "0", "0", "E", "9">>, <<195, 169>>),
      Piece(<<"\\", "u", "2", "0", "A", "C">>, <<226, 130, 172>>),
      Piece(<<"\\", "u", "D", "8", "3", "4",
              "\\", "u", "D", "D", "1", "E">>, <<240, 157, 132, 158>>),
      [text |-> <<195, 169>>, bytes |-> <<195, 169>>] }

\* Literals that are no strings of the format.
BadPieces ==
    { Piece(<<"\\", "u", "0", "0", "e", "9">>, <<>>),
      Piece(<<"\\", "x">>, <<>>),
      Piece(<<"\\", "u", "D", "8", "3", "4">>, <<>>),
      Piece(<<"\\", "u", "D", "D", "1", "E">>, <<>>),
      [text |-> <<1>>, bytes |-> <<>>] }

RECURSIVE PieceSeqs(_, _)
PieceSeqs(ps, n) ==
    IF n = 0
    THEN { <<>> }
    ELSE PieceSeqs(ps, n - 1)
         \cup { Append(s, p) : s \in PieceSeqs(ps, n - 1) \ {<<>>}, p \in ps }
         \cup { <<p>> : p \in ps }

Literals ==
    PieceSeqs(Pieces, MaxPieces)
    \cup { Repeat(<<p>>, 5) : p \in { q \in Pieces : Len(q.text) <= 6 } }
    \cup { Repeat(<<p>>, n) :
             p \in { q \in Pieces : Len(q.text) <= 2 }, n \in {13, 14, 15} }
    \cup { Repeat(<<Piece(<<"a">>, <<97>>)>>, n) \o <<p>> :
             p \in Pieces, n \in {12, 13, 14} }

StringText(ps) ==
    <<Ord("\"")>> \o Concat([i \in 1..Len(ps) |-> ps[i].text])
    \o <<Ord("\"")>>

StringBytes(ps) == Concat([i \in 1..Len(ps) |-> ps[i].bytes])

StringDocs ==
    { Doc("string", StringText(ps), FALSE, <<>>, StringBytes(ps), <<>>) :
        ps \in Literals }

BadStringDocs ==
    { Doc("other", StringText(<<p>>), FALSE, <<>>, <<>>, <<>>) :
        p \in BadPieces }

\* String literals with a high surrogate that no low surrogate follows:
\* some bytes, the escape of the high surrogate, and what follows it.
HighSurrogateDocs ==
    { Doc("high surrogate",
          StringText(<<Piece(before, <<>>), Piece(high, <<>>),
                       Piece(after, <<>>)>>),
          FALSE, <<>>, <<>>, <<>>) :
        before \in { <<>>, <<"a">> },
        high \in { <<"\\", "u", "D", "8", "3", "4">>,
                   <<"\\", "u", "D", "8", "0", "0">>,
                   <<"\\", "u", "D", "B", "F", "F">> },
        after \in { <<>>, <<"a">>, <<"\\", "n">>,
                    <<"\\", "u", "0", "0", "6", "1">>,
                    <<"\\", "u", "D", "8", "3", "4">>,
                    <<"\\", "u", "D", "B", "F", "F">>,
                    <<"\\", "u", "E", "0", "0", "0">>,
                    <<"a", "\\", "u", "D", "D", "1", "E">> } }

\* Texts of letters that begin with t, f or n.
TokenDocs ==
    { Doc("token", Str(chars), FALSE, <<>>, <<>>, <<>>) :
        chars \in { <<"t", "r", "u", "e">>, <<"f", "a", "l", "s", "e">>,
                    <<"n", "u", "l", "l">>, <<"t", "a", "b", "c">>,
                    <<"n", "o", "p", "e">>, <<"f", "a", "l", "s", "y">>,
                    <<"t", "r", "u", "e", "e">>, <<"t", "r", "u">>,
                    <<"t">>, <<"n", "u">>, <<"f", "a", "l", "s">>,
                    <<"f", "a", "l">>, <<"n", "i", "l">> } }

\* Objects: the keys may stand for the same content in different ways, of
\* at most 14 bytes or of more.
KeyLiterals ==
    LET a == Piece(<<"a">>, <<97>>)
        ua == Piece(<<"\\", "u", "0", "0", "6", "1">>, <<97>>)
    IN  { Repeat(<<a>>, 5), Repeat(<<ua>>, 5),
          Repeat(<<a>>, 15), <<ua>> \o Repeat(<<a>>, 14),
          <<Piece(<<"\\", "n">>, <<10>>)>>,
          <<Piece(<<"\\", "u", "0", "0", "0", "A">>, <<10>>)>> }

RECURSIVE KeySeqs(_)
KeySeqs(n) ==
    IF n = 0
    THEN { <<>> }
    ELSE KeySeqs(n - 1)
         \cup { Append(s, k) : s \in KeySeqs(n - 1), k \in KeyLiterals }

\* The members have the values 1, 2, ...
ObjectText(ks) ==
    <<Ord("{")>>
    \o Concat([i \in 1..Len(ks) |->
                 (IF i > 1 THEN <<Ord(",")>> ELSE <<>>)
                 \o StringText(ks[i]) \o <<Ord(":"), Ord("0") + i>>])
    \o <<Ord("}")>>

ObjectDocs ==
    { Doc("object", ObjectText(ks), FALSE, <<>>, <<>>,
          [i \in 1..Len(ks) |-> StringBytes(ks[i])]) :
        ks \in { s \in KeySeqs(MaxMembers) : Len(s) \in {0, 2, MaxMembers} } }

\* Other texts: the literals, spaces, and what is no value.
OtherDocs ==
    { Doc("other", Str(chars), FALSE, <<>>, <<>>, <<>>) :
        chars \in { <<"t", "r", "u", "e">>, <<"f", "a", "l", "s", "e">>,
                    <<"n", "u", "l", "l">>, <<"t", "r", "u">>,
                    <<"t", "x", "y", "z">>, <<"n", "u", "l", "l", "x">>,
                    <<" ", "t", "r", "u", "e", "\n">>, <<>>, <<" ">>,
                    <<"[", "]">>, <<"[", " ", "]">>, <<"{", "}">>,
                    <<"[">>, <<"{">>, <<"[", "t", "r">>, <<"1", ".", "5">>,
                    <<"1", "e", "5">>, <<"-">>, <<"+", "1">>, <<"1", " ", "2">>,
                    <<"[", "1", ",", "]">>, <<"[", "1", " ", "2", "]">>,
                    <<"{", "\"", "a", "\"", "}">>,
                    <<"{", "\"", "a", "\"", ":", "}">>,
                    <<"{", "1", ":", "2", "}">>, <<"\"", "a">>,
                    <<"[", "[", "]", ",", "{", "}", "]">> } }

\* A text inside an array and inside an object of an array.
InArray(d) ==
    [d EXCEPT !.text = <<Ord("[")>> \o @ \o <<Ord("]")>>, !.at = @ + 1]

InObject(d) ==
    [d EXCEPT !.text = Str(<<"{", "\"", "o", "\"", ":", "[", "t", "r", "u",
                             "e", ",", " ">>)
                       \o @ \o Str(<<"]", "}">>),
              !.at = @ + 12]

\* Arrays of values of each type.
RECURSIVE DocSeqs(_, _)
DocSeqs(ds, n) ==
    IF n = 0
    THEN { <<>> }
    ELSE DocSeqs(ds, n - 1)
         \cup { Append(s, d) : s \in DocSeqs(ds, n - 1), d \in ds }

ArrayText(ds) ==
    <<Ord("[")>>
    \o Concat([i \in 1..Len(ds) |->
                 (IF i > 1 THEN <<Ord(",")>> ELSE <<>>) \o ds[i].text])
    \o <<Ord("]")>>

ArrayDocs ==
    LET elements ==
            { d \in NumberDocs : d.digits \in {<<7>>, Repeat(<<9>>, 11)} }
            \cup { d \in StringDocs : Len(d.text) = 4 }
            \cup { d \in ObjectDocs : Len(d.keys) = 2 /\ Len(d.text) = 18 }
            \cup { d \in OtherDocs : Len(d.text) \in {2, 4} }
            \cup { InArray(d) : d \in { n \in NumberDocs : n.digits = <<7>> } }
    IN  { Doc("array", ArrayText(ds), FALSE, <<>>, <<>>, <<>>) :
            ds \in DocSeqs(elements, MaxElements) }

ConfDocs ==
    NumberDocs \cup StringDocs \cup BadStringDocs \cup ObjectDocs
    \cup OtherDocs \cup ArrayDocs \cup HighSurrogateDocs \cup TokenDocs
    \cup { InArray(d) : d \in NumberDocs \cup HighSurrogateDocs }
    \cup { InObject(d) :
             d \in NumberDocs
                   \cup { o \in ObjectDocs : Len(o.keys) = 2 }
                   \cup { t \in StringDocs : Len(t.text) <= 8 } }

\* The memory after the text, whether the pool has memory, and the order
\* of the hash.
ConfEnvs ==
    { [after |-> a, memory |-> TRUE, order |-> "insertion"] :
        a \in MemoryAfter }
    \cup { [after |-> [i \in 1..8 |-> 0], memory |-> m, order |-> o] :
             m \in BOOLEAN, o \in HashOrders }

(***************************************************************************)
(* The configuration state machine: a text is parsed, the value printed,   *)
(* the compact print parsed again.                                         *)
(***************************************************************************)
InitConf ==
    /\ conf = [header_buffer_size |-> 1, large_header_buffer_size |-> 1,
               large_header_buffers |-> 0, max_body_size |-> 1]
    /\ c = [read |-> NULL, read_state |-> "idle", write |-> <<>>,
            write_state |-> "none", socket_data |-> NULL, fd |-> 1,
            tcp_nodelay |-> FALSE, rd |-> "wait", wr |-> FALSE]
    /\ h1p = ZeroH1p
    /\ reqs = [i \in {} |-> NewRequest]
    /\ bufs = <<>>
    /\ wq = <<>>
    /\ cli_sent = 0
    /\ rcvd = 0
    /\ nreq = 0
    /\ log = <<>>
    /\ json \in { [phase |-> "text", doc |-> d, env |-> e, value |-> NoValue,
                   pretty |-> FALSE, size |-> 0, out |-> <<>>,
                   again |-> NoValue] :
                    d \in ConfDocs, e \in ConfEnvs }

H1Unchanged ==
    UNCHANGED <<conf, c, h1p, reqs, bufs, wq, cli_sent, rcvd, nreq, log>>

\* nxt_conf_json_parse of the text.
ConfParse ==
    /\ json.phase = "text"
    /\ json' = [json EXCEPT
                  !.phase = "parsed",
                  !.value = nxt_conf_json_parse(json.doc.text, json.env)]
    /\ H1Unchanged

\* nxt_conf_json_print_value of the value in a style: with no buffer for
\* the size, then into a buffer.
ConfPrint ==
    /\ json.phase = "parsed"
    /\ json.value # NoValue
    /\ \E pretty \in BOOLEAN :
          json' = [json EXCEPT
                     !.phase = "printed",
                     !.pretty = pretty,
                     !.size = nxt_conf_json_print_value_size(json.value,
                                                             pretty, 0),
                     !.out = nxt_conf_json_print_value(json.value, pretty, 0,
                                                       FALSE).out]
    /\ H1Unchanged

\* nxt_conf_json_parse of the compact print.
ConfReparse ==
    /\ json.phase = "printed"
    /\ ~json.pretty
    /\ json' = [json EXCEPT
                  !.phase = "reparsed",
                  !.again = nxt_conf_json_parse(json.out, json.env)]
    /\ H1Unchanged

NextConf ==
    \/ ConfParse
    \/ ConfPrint
    \/ ConfReparse

SpecConf == InitConf /\ [][NextConf]_vars

(***************************************************************************)
(* The connection with room for a body: a body of up to MaxBody bytes is   *)
(* accepted, and the peer sends up to MaxBodyStream bytes, so that a body  *)
(* arrives with the header, after it, or with bytes of a next request      *)
(* behind it.                                                              *)
(***************************************************************************)
\* max_body_size and the size of the header buffer
MaxBody == 2
\* bytes the peer sends on the connection
MaxBodyStream == 3

InitBody ==
    /\ conf = [header_buffer_size |-> MaxBodyStream,
               large_header_buffer_size |-> 1,
               large_header_buffers |-> 0, max_body_size |-> MaxBody]
    /\ c = [read |-> NULL, read_state |-> "idle", write |-> <<>>,
            write_state |-> "none", socket_data |-> NULL, fd |-> 1,
            tcp_nodelay |-> FALSE, rd |-> "wait", wr |-> FALSE]
    /\ h1p = ZeroH1p
    /\ reqs = [i \in {} |-> NewRequest]
    /\ bufs = <<>>
    /\ wq = <<>>
    /\ cli_sent = 0
    /\ rcvd = 0
    /\ nreq = 0
    /\ log = <<"http conn init">>
    /\ json = NoJson

\* The peer sends bytes.
BodyClientSend ==
    /\ c.fd # -1
    /\ \E n \in 1..(MaxBodyStream - cli_sent) :
          Becomes([Log(State, "peer sends") EXCEPT !.cli_sent = @ + n])

NextBody ==
    \/ BodyClientSend
    \/ WaitReady
    \/ ReadReady
    \/ PeerClose
    \/ ConnError
    \/ Timeout
    \/ WriteReady
    \/ RunWork
    \/ AppHeaderSend
    \/ AppSend

SpecBody == InitBody /\ [][NextBody]_vars

(***************************************************************************)
(* Edits of a configuration: a text is parsed into a tree; a path is       *)
(* looked up in it, or an edit of it is compiled and the tree cloned under *)
(* the chain, and what was set is then deleted by the same path.           *)
(***************************************************************************)
\* components of a path
MaxDepth == 3

\* The text of an object of members <<key, text of the value>>.
EditObjectText(ms) ==
    <<Ord("{")>>
    \o Concat([i \in 1..Len(ms) |->
                 (IF i > 1 THEN <<Ord(",")>> ELSE <<>>)
                 \o <<Ord("\"")>> \o ms[i][1] \o <<Ord("\""), Ord(":")>>
                 \o ms[i][2]])
    \o <<Ord("}")>>

\* A key longer than NXT_CONF_JSON_STR_SIZE.
LongKey == Repeat(Str(<<"b">>), NXT_CONF_JSON_STR_SIZE + 1)

EditTexts ==
    LET a == Str(<<"a">>)
        b == Str(<<"b">>)
        cc == Str(<<"c">>)
        one == Str(<<"1">>)
        two == Str(<<"2">>)
        three == Str(<<"3">>)
    IN  { EditObjectText(<<>>),
          EditObjectText(<<<<a, one>>, <<b, Str(<<"[", "2", "]">>)>>,
                           <<cc, Str(<<"\"", "x", "\"">>)>>>>),
          EditObjectText(<<<<a, EditObjectText(
                                    <<<<b, EditObjectText(<<<<cc, one>>>>)>>,
                                      <<cc, two>>>>)>>,
                           <<b, three>>>>),
          EditObjectText(<<<<cc, EditObjectText(<<>>)>>,
                           <<a, EditObjectText(<<<<a, one>>, <<b, two>>,
                                                 <<cc, three>>>>)>>>>),
          EditObjectText(<<<<<<>>, EditObjectText(<<<<<<>>, one>>>>)>>,
                           <<a, EditObjectText(<<<<<<>>, two>>>>)>>>>),
          EditObjectText(<<<<LongKey,
                             EditObjectText(<<<<LongKey, one>>,
                                              <<a, two>>>>)>>>>),
          EditObjectText(<<<<a, EditObjectText(<<<<b, one>>,
                                                 <<cc, two>>>>)>>>>),
          Str(<<"7">>),
          Str(<<"[", "1", "]">>) }

Components ==
    { Str(<<"a">>), Str(<<"b">>), Str(<<"c">>), Str(<<"d">>), <<>>, LongKey }

RECURSIVE ComponentSeqs(_)
ComponentSeqs(n) ==
    IF n = 0
    THEN { <<>> }
    ELSE ComponentSeqs(n - 1)
         \cup { Append(s, k) : s \in ComponentSeqs(n - 1), k \in Components }

\* The path of the components, a slash before each.
PathOf(ks) == Concat([i \in 1..Len(ks) |-> <<Ord("/")>> \o ks[i]])

\* Paths of up to MaxDepth components, the empty path, and a path with no
\* slash at its start.
EditPaths ==
    { PathOf(ks) : ks \in ComponentSeqs(MaxDepth) }
    \cup { Str(<<"a", "b">>) }

\* The memory of an edit is that of ConfEnvs with nothing after the text.
EditEnvs == { e \in ConfEnvs : e.after = [i \in 1..8 |-> 0] }

\* The values set: an integer, an object; NoValue is the NULL of a delete.
EditValues ==
    { NoValue }
    \cup { nxt_conf_json_parse(t, [after |-> [i \in 1..8 |-> 0],
                                  memory |-> TRUE, order |-> "insertion"]) :
             t \in { Str(<<"7">>), Str(<<"4">>),
                     EditObjectText(<<<<Str(<<"c">>), Str(<<"8">>)>>>>) } }

\* The chains of Pass nodes along the members of a tree: a node with a node
\* after it names a member that is an object.
RECURSIVE PassChains(_)
PassChains(value) ==
    IF value.type # "OBJECT"
    THEN { <<>> }
    ELSE { <<>> }
         \cup UNION { { <<Op("PASS", n - 1, NoMember)>> \o chain :
                          chain \in PassChains(value.u[n].value) } :
                      n \in 1..Len(value.u) }

InitEdit ==
    /\ conf = [header_buffer_size |-> 1, large_header_buffer_size |-> 1,
               large_header_buffers |-> 0, max_body_size |-> 1]
    /\ c = [read |-> NULL, read_state |-> "idle", write |-> <<>>,
            write_state |-> "none", socket_data |-> NULL, fd |-> 1,
            tcp_nodelay |-> FALSE, rd |-> "wait", wr |-> FALSE]
    /\ h1p = ZeroH1p
    /\ reqs = [i \in {} |-> NewRequest]
    /\ bufs = <<>>
    /\ wq = <<>>
    /\ cli_sent = 0
    /\ rcvd = 0
    /\ nreq = 0
    /\ log = <<>>
    /\ json \in { [phase |-> "text", text |-> t, env |-> e, tree |-> NoValue,
                   path |-> <<>>, value |-> NoValue, rc |-> "none",
                   ops |-> <<>>, result |-> NoValue, rc2 |-> "none",
                   undone |-> NoValue] :
                    t \in EditTexts, e \in EditEnvs }

\* nxt_conf_json_parse of the text.
EditParse ==
    /\ json.phase = "text"
    /\ json' = [json EXCEPT
                  !.phase = "tree",
                  !.tree = nxt_conf_json_parse(json.text, json.env)]
    /\ H1Unchanged

\* nxt_conf_json_get_value of a path in the tree.
EditGet ==
    /\ json.phase = "tree"
    /\ json.tree # NoValue
    /\ \E path \in EditPaths :
          json' = [json EXCEPT
                     !.phase = "got",
                     !.path = path,
                     !.result = nxt_conf_json_get_value(json.tree, path)]
    /\ H1Unchanged

\* nxt_conf_json_op_compile of a path and a value against the tree.
EditCompile ==
    /\ json.phase = "tree"
    /\ json.tree # NoValue
    /\ \E path \in EditPaths, value \in EditValues :
          json' = [json EXCEPT
                     !.phase = "compiled",
                     !.path = path,
                     !.value = value,
                     !.rc = nxt_conf_json_op_compile(json.tree, value, path,
                                                     json.env.memory).rc,
                     !.ops = nxt_conf_json_op_compile(json.tree, value, path,
                                                      json.env.memory).ops]
    /\ H1Unchanged

\* nxt_conf_json_clone_value of the tree under the chain compiled.
EditClone ==
    /\ json.phase = "compiled"
    /\ json.rc = "OK"
    /\ json' = [json EXCEPT
                  !.phase = "cloned",
                  !.result = nxt_conf_json_clone_value(json.tree, json.ops,
                                                       json.env.memory)]
    /\ H1Unchanged

\* nxt_conf_json_clone_value of the tree under no chain or a chain of Pass
\* nodes.
EditPass ==
    /\ json.phase = "tree"
    /\ json.tree # NoValue
    /\ \E chain \in PassChains(json.tree) :
          json' = [json EXCEPT
                     !.phase = "passed",
                     !.ops = chain,
                     !.result = nxt_conf_json_clone_value(json.tree, chain,
                                                          json.env.memory)]
    /\ H1Unchanged

\* What was set is deleted: nxt_conf_json_op_compile of the same path and
\* no value against the clone, and nxt_conf_json_clone_value under it.
EditDelete ==
    /\ json.phase = "cloned"
    /\ json.value # NoValue
    /\ json.result # NoValue
    /\ json' = [json EXCEPT
                  !.phase = "deleted",
                  !.rc2 = nxt_conf_json_op_compile(json.result, NoValue,
                                                   json.path,
                                                   json.env.memory).rc,
                  !.undone =
                      IF nxt_conf_json_op_compile(json.result, NoValue,
                                                  json.path,
                                                  json.env.memory).rc = "OK"
                      THEN nxt_conf_json_clone_value(
                               json.result,
                               nxt_conf_json_op_compile(
                                   json.result, NoValue, json.path,
                                   json.env.memory).ops,
                               json.env.memory)
                      ELSE NoValue]
    /\ H1Unchanged

NextEdit ==
    \/ EditParse
    \/ EditGet
    \/ EditCompile
    \/ EditClone
    \/ EditPass
    \/ EditDelete

SpecEdit == InitEdit /\ [][NextEdit]_vars

(***************************************************************************)
(* Properties.                                                             *)
(***************************************************************************)
\* The request the connection is serving.
Active == h1p.request # NULL /\ h1p.request \in DOMAIN reqs

HasField(fields, name, value) ==
    \E i \in 1..Len(fields) :
        fields[i].name = name /\ fields[i].value = value

\* The positions of a debug line in the log of the last event.
Logged(m) == { i \in 1..Len(log) : log[i] = m }

LastLogged(m) == log # <<>> /\ log[Len(log)] = m

\* The header is parsed and nothing after the field handlers has touched
\* the keepalive flag: the request waits for its body or for the
\* application.
HeaderParsed ==
    /\ Active
    /\ reqs[h1p.request].state \in {"body", "app"}
    /\ reqs[h1p.request].status = 0

\* C1: once the header is parsed, keepalive is off for an HTTP/1.0 request
\* (no value of a Connection field turns it on) and on for an HTTP/1.1
\* request exactly when the request carries no `Connection: close`.
C1_KeepaliveDefault ==
    HeaderParsed =>
        LET fields == reqs[h1p.request].fields
        IN  /\ h1p.parser.minor = "0" => ~h1p.keepalive
            /\ h1p.parser.minor = "1" =>
                  (h1p.keepalive <=> ~HasField(fields, "Connection", "close"))

\* An HTTP/1.1 request with `Connection: close` is parsed.
C1_Witness ==
    /\ HeaderParsed
    /\ h1p.parser.minor = "1"
    /\ HasField(reqs[h1p.request].fields, "Connection", "close")
    /\ ~h1p.keepalive

\* The unparsed bytes of the header buffer are the bytes received last, in
\* the order of the stream, and [pos, free) spans them.
UnparsedInOrder ==
    (c.fd # -1 /\ c.read # NULL /\ c.read_state # "read_body") =>
        LET b == bufs[c.read]
            used == nxt_buf_mem_used_size(b)
        IN  /\ Len(b.data) = used
            /\ \A i \in 1..used : b.data[i] = rcvd - used + i

C3_OneAtATime ==
    /\ Cardinality(DOMAIN reqs) <= 1
    /\ DOMAIN reqs \subseteq {h1p.request}
    /\ \A i \in Logged("h1p request close") :
          (i + 1) \in Logged("h1p keepalive") =>
              i = 2 /\ log[1] = "request done"

\* The event the reactor delivered is a peer close, a transport error or a
\* timeout of the connection.
TransportEvent ==
    /\ log # <<>>
    /\ log[1] \in {"h1p conn close", "h1p conn error", "h1p conn timeout"}

\* C4: after a peer close, a transport error or a timeout the connection
\* is closed, it did not take the keepalive path, and no request is left.
C4_TransportErrorCloses ==
    TransportEvent =>
        /\ c.fd = -1
        /\ Logged("h1p keepalive") = {}
        /\ ~Active

HasFieldNamed(fields, name) ==
    \E i \in 1..Len(fields) : fields[i].name = name

\* The response header is handed to the connection in the last event: it
\* is the chain c->write.
HeaderJustSent ==
    /\ LastLogged("h1p request header send")
    /\ Active
    /\ c.write # <<>>
    /\ c.write[1].kind = "header"

\* The status line of the header just handed to the connection.
SentStatusLine == c.write[1].text[1]

\* The active request announces a body larger than max_body_size and has
\* no Transfer-Encoding.
TooLargeBody ==
    /\ Active
    /\ ~HasFieldNamed(reqs[h1p.request].fields, "Transfer-Encoding")
    /\ reqs[h1p.request].content_length_n > conf.max_body_size

C5_Answer ==
    TooLargeBody =>
        /\ reqs[h1p.request].status = NXT_HTTP_PAYLOAD_TOO_LARGE
        /\ ~h1p.keepalive
        /\ reqs[h1p.request].body = NULL
        /\ c.rd = "none"
        /\ HeaderJustSent =>
              SentStatusLine = "HTTP/1.1 413 Payload Too Large\r\n"

C5_Close ==
    (TooLargeBody /\ h1p'.request # h1p.request) => c'.fd = -1

\* C5: a request without Transfer-Encoding whose Content-Length is above
\* max_body_size is answered 413 with keepalive off, without a body
\* buffer and without a read of the body, and the connection is closed when
\* the request ends.
C5_BodyCap == [](C5_Answer) /\ [][C5_Close]_vars

\* The 413 response of an HTTP/1.1 request is handed to the connection.
C5_Witness ==
    /\ TooLargeBody
    /\ HeaderJustSent
    /\ h1p.parser.minor = "1"
    /\ reqs[h1p.request].status = NXT_HTTP_PAYLOAD_TOO_LARGE

\* The active request has a Transfer-Encoding field and its header fields
\* were accepted (a Content-Length, if any, is a number).
HasTransferEncoding ==
    /\ Active
    /\ HasFieldNamed(reqs[h1p.request].fields, "Transfer-Encoding")
    /\ ~HasField(reqs[h1p.request].fields, "Content-Length", "x")

\* C6: a request with `Transfer-Encoding: chunked` is answered 411 and one
\* with another Transfer-Encoding 501, whatever its Content-Length; the
\* keepalive flag is off, no body buffer exists and no read is pending.
C6_TransferEncodingFirst ==
    HasTransferEncoding =>
        LET r == h1p.request
            chunked == HasField(reqs[r].fields, "Transfer-Encoding", "chunked")
        IN  /\ reqs[r].status = IF chunked
                                THEN NXT_HTTP_LENGTH_REQUIRED
                                ELSE NXT_HTTP_NOT_IMPLEMENTED
            /\ ~h1p.keepalive
            /\ reqs[r].body = NULL
            /\ c.rd = "none"
            /\ HeaderJustSent =>
                  SentStatusLine = IF chunked
                                   THEN "HTTP/1.1 411 Length Required\r\n"
                                   ELSE "HTTP/1.1 501 Not Implemented\r\n"

\* An HTTP/1.1 request with `Transfer-Encoding: gzip` and a Content-Length
\* above max_body_size is answered 501.
C6_Witness ==
    /\ HasTransferEncoding
    /\ HeaderJustSent
    /\ h1p.parser.minor = "1"
    /\ HasField(reqs[h1p.request].fields, "Transfer-Encoding", "gzip")
    /\ reqs[h1p.request].content_length_n > conf.max_body_size
    /\ reqs[h1p.request].status = NXT_HTTP_NOT_IMPLEMENTED

\* The last event ended with the tokenizer asking for more input, and the
\* connection reads on.
AgainReadsOn(l) == l # <<>> /\ l[Len(l)] = "http parse request AGAIN"

\* The last event ended with the tokenizer asking for more input and an
\* error response handed to the connection.
AgainRefused(l) ==
    /\ Len(l) >= 2
    /\ l[Len(l) - 1] = "http parse request AGAIN"
    /\ l[Len(l)] = "h1p request header send"

C7_Cap == h1p.nbuffers <= conf.large_header_buffers

\* A buffer is allocated while the parser needs more input only when the
\* buffer before it is full, the tail copied is smaller than
\* large_header_buffer_size and the cap is kept.
C7_Grow ==
    (AgainReadsOn(log') /\ Len(bufs') > Len(bufs)) =>
        LET new == bufs'[c'.read]
            old == bufs'[Head(h1p'.buffers)]
        IN  /\ c'.read = Len(bufs')
            /\ Len(bufs') = Len(bufs) + 1
            /\ h1p'.nbuffers <= conf.large_header_buffers
            /\ new.size = conf.large_header_buffer_size
            /\ nxt_buf_mem_used_size(new) < conf.large_header_buffer_size
            /\ nxt_buf_mem_used_size(new) = nxt_buf_mem_used_size(old)
            /\ nxt_buf_mem_free_size(old) = 0

\* Without room to grow the request is answered 431 and nothing is
\* allocated; with room, reading goes on (or the allocation fails: 500).
C7_Refuse ==
    /\ AgainReadsOn(log') => nxt_buf_mem_free_size(bufs'[c'.read]) > 0
    /\ (AgainRefused(log') /\ h1p'.request # NULL) =>
          LET in == bufs'[c'.read]
              status == reqs'[h1p'.request].status
              room == /\ nxt_buf_mem_used_size(in)
                            < conf.large_header_buffer_size
                      /\ h1p'.nbuffers < conf.large_header_buffers
          IN  /\ Len(bufs') = Len(bufs)
              /\ nxt_buf_mem_free_size(in) = 0
              /\ status = IF room
                          THEN NXT_HTTP_INTERNAL_SERVER_ERROR
                          ELSE NXT_HTTP_REQUEST_HEADER_FIELDS_TOO_LARGE

\* C7: h1p->nbuffers is at most large_header_buffers in every state; when
\* the parser needs more input and the buffer is full, a large buffer is
\* allocated only with nbuffers below the cap and a tail smaller than
\* large_header_buffer_size, otherwise the answer is 431 and nothing is
\* allocated.
C7_LargeBufferCap == [](C7_Cap) /\ [][C7_Grow /\ C7_Refuse]_vars

\* The cap is reached: large_header_buffers >= 1 buffers are grown.
C7_Witness ==
    /\ AgainReadsOn(log)
    /\ h1p.nbuffers >= 1
    /\ h1p.nbuffers = conf.large_header_buffers
    /\ c.fd # -1

\* The header of the active request is complete.
HeaderComplete == Active /\ h1p.parser.minor # ""

\* C8 as stated: a request whose header bytes exceed large_header_buffers
\* times large_header_buffer_size is answered 431.
C8_HeaderCapAsStated ==
    (HeaderComplete /\ h1p.parser.consumed
          > conf.large_header_buffers * conf.large_header_buffer_size) =>
        reqs[h1p.request].status = NXT_HTTP_REQUEST_HEADER_FIELDS_TOO_LARGE

\* C8: 431 answers a header that outgrows its buffers: the parser needs
\* more input, the buffer is full, and large_header_buffers buffers are
\* grown or the unparsed tail is no smaller than large_header_buffer_size.
\* The header of the first request of a connection is thus accepted only up
\* to header_buffer_size + large_header_buffers * large_header_buffer_size
\* bytes, also when that is above large_header_buffers *
\* large_header_buffer_size.
C8_HeaderCap ==
    /\ (AgainRefused(log) /\ Active
        /\ reqs[h1p.request].status
             = NXT_HTTP_REQUEST_HEADER_FIELDS_TOO_LARGE) =>
          /\ nxt_buf_mem_free_size(bufs[c.read]) = 0
          /\ \/ h1p.nbuffers >= conf.large_header_buffers
             \/ nxt_buf_mem_used_size(bufs[c.read])
                  >= conf.large_header_buffer_size
    /\ (Active /\ h1p.request = 1) =>
          h1p.parser.consumed
            <= conf.header_buffer_size
               + conf.large_header_buffers * conf.large_header_buffer_size

\* A header too long for the buffers is answered 431 although buffers
\* were grown.
C8_Witness ==
    /\ AgainRefused(log)
    /\ Active
    /\ reqs[h1p.request].status = NXT_HTTP_REQUEST_HEADER_FIELDS_TOO_LARGE
    /\ h1p.nbuffers >= 1

\* How many lines of the header just handed to the connection are `line`.
SentLines(line) ==
    Cardinality({ i \in 1..Len(c.write[1].text) : c.write[1].text[i] = line })

\* The response header of a request with a parsed version is handed to the
\* connection.
ResponseStarted == HeaderJustSent /\ HeaderComplete

\* The active request is an HTTP/1.0 request whose response header is sent
\* and has no Content-Length.
UnframedResponse ==
    /\ HeaderComplete
    /\ h1p.parser.minor = "0"
    /\ reqs[h1p.request].header_sent
    /\ NoContentLength(reqs[h1p.request].resp)

C9_Framing ==
    /\ ResponseStarted =>
          LET http11 == h1p.parser.minor = "1"
              text == c.write[1].text
          IN  IF NoContentLength(reqs[h1p.request].resp)
              THEN /\ h1p.chunked <=> http11
                   /\ SentLines(chunked_line) = (IF http11 THEN 1 ELSE 0)
                   /\ ~http11 => ~h1p.keepalive /\ text[Len(text)] = "\r\n"
              ELSE /\ ~h1p.chunked
                   /\ SentLines(chunked_line) = 0
                   /\ text[Len(text)] = "\r\n"
    /\ (Active /\ ~h1p.chunked) =>
          \A i \in 1..Len(c.write) :
              c.write[i].req = h1p.request => c.write[i].kind # "chunk"

C9_Close ==
    (UnframedResponse /\ h1p'.request # h1p.request) => c'.fd = -1

\* C9: a response without a Content-Length field (none, or one marked
\* skip) is chunked exactly when the request is HTTP/1.1; for HTTP/1.0
\* keepalive is turned off, the body goes out without chunk framing and the
\* connection is closed when the request ends.  A response with a
\* Content-Length is never chunked.
C9_ResponseFraming == [](C9_Framing) /\ [][C9_Close]_vars

\* The body of an HTTP/1.0 response without Content-Length is queued as it
\* is.
C9_Witness ==
    /\ UnframedResponse
    /\ LastLogged("h1p request send")
    /\ \E i \in 1..Len(c.write) :
          c.write[i].req = h1p.request /\ c.write[i].kind = "data"

\* C10: the response header has one Connection line, `Connection: close`
\* with keepalive off and `Connection: keep-alive` with it on, when the
\* keepalive flag differs from the default of the request's version (on
\* for 1.1, off for 1.0), and no Connection line when it does not.
C10_ConnectionLine ==
    ResponseStarted =>
        LET default == h1p.parser.minor = "1"
            close == SentLines("Connection: close\r\n")
            alive == SentLines("Connection: keep-alive\r\n")
        IN  IF h1p.keepalive # default
            THEN /\ close = (IF h1p.keepalive THEN 0 ELSE 1)
                 /\ alive = (IF h1p.keepalive THEN 1 ELSE 0)
            ELSE close = 0 /\ alive = 0

\* The response to an HTTP/1.1 request with `Connection: close` carries
\* `Connection: close`.
C10_Witness ==
    /\ ResponseStarted
    /\ h1p.parser.minor = "1"
    /\ reqs[h1p.request].status = NXT_HTTP_OK
    /\ SentLines("Connection: close\r\n") = 1

\* Lowercase hexadecimal notation of a positive number.
RECURSIVE LowerHex(_)
LowerHex(n) ==
    LET d == <<"0", "1", "2", "3", "4", "5", "6", "7", "8", "9",
               "a", "b", "c", "d", "e", "f">>
    IN  IF n < 16 THEN d[n + 1] ELSE LowerHex(n \div 16) \o d[(n % 16) + 1]

\* The bytes of a buffer chain in order: the pieces of text the engine
\* wrote, and the application's data by their number.
Text(t) == [text |-> t, n |-> 0]

Data(n) == [text |-> "", n |-> n]

RECURSIVE Bytes(_)
Bytes(chain) ==
    IF chain = <<>>
    THEN <<>>
    ELSE LET b == Head(chain)
         IN  (IF b.kind \in {"header", "chunk"}
              THEN [i \in 1..Len(b.text) |-> Text(b.text[i])]
              ELSE IF b.mem > 0 THEN <<Data(b.mem)>> ELSE <<>>)
             \o Bytes(Tail(chain))

\* The number of data bytes at the head of a byte sequence, and what
\* follows them.
RECURSIVE DataRun(_)
DataRun(t) ==
    IF t # <<>> /\ Head(t).n > 0
    THEN LET d == DataRun(Tail(t))
         IN  [n |-> Head(t).n + d.n, rest |-> d.rest]
    ELSE [n |-> 0, rest |-> t]

\* t is what follows the header lines of a chunked message: the CRLF that
\* ends the header block or the data of the chunk before, then a chunk
\* size line and as many data bytes as it says, and so on; a chunk of size
\* zero and the CRLF of the empty trailer end the message, and nothing
\* follows them.  A message that is not closed may end after any chunk.
RECURSIVE ChunkedBody(_, _)
ChunkedBody(t, closed) ==
    IF t = <<>>
    THEN ~closed
    ELSE /\ Len(t) >= 3
         /\ t[1] = Text("\r\n")
         /\ t[2].n = 0
         /\ t[3] = Text("\r\n")
         /\ IF t[2].text = "0"
            THEN SubSeq(t, 4, Len(t)) = <<Text("\r\n")>>
            ELSE LET d == DataRun(SubSeq(t, 4, Len(t)))
                 IN  /\ d.n > 0
                     /\ t[2].text = LowerHex(d.n)
                     /\ ChunkedBody(d.rest, closed)

\* A header block without its final CRLF: lines that end with CRLF.
HeaderLines(text) ==
    /\ text # <<>>
    /\ \A i \in 1..Len(text) : text[i] \notin {"", "\r\n"}

\* c->write holds a chunked response from its header on.
ChunkedResponse ==
    /\ h1p.chunked
    /\ c.write # <<>>
    /\ c.write[1].kind = "header"

HasLast(chain) == \E i \in 1..Len(chain) : chain[i].last

\* One call of nxt_h1p_request_send has added buffers to c->write.
ChunkSent ==
    /\ ChunkedResponse
    /\ ChunkedResponse'
    /\ Len(c.write') > Len(c.write)

C11_PerSend ==
    ChunkSent =>
        LET new == SubSeq(c.write', Len(c.write) + 1, Len(c.write'))
            isapp(b) == b.kind \in {"data", "last"}
            out == SelectSeq(new, isapp)
            last == HasLast(out)
            data == SelectSeq(out, LAMBDA b : ~b.last)
            n == SeqSum([i \in 1..Len(data) |-> data[i].mem])
        IN  /\ SubSeq(c.write', 1, Len(c.write)) = c.write
            /\ Bytes(new) =
                  (IF n > 0
                   THEN <<Text("\r\n"), Text(LowerHex(n)), Text("\r\n")>>
                        \o Bytes(data)
                   ELSE <<>>)
                  \o (IF last
                      THEN <<Text("\r\n"), Text("0"), Text("\r\n"),
                             Text("\r\n")>>
                      ELSE <<>>)
            /\ last =>
                  /\ new[Len(new)].last
                  /\ new[Len(new) - 1].text = <<"\r\n", "0", "\r\n", "\r\n">>

C11_Stream ==
    ChunkedResponse =>
        /\ HeaderLines(c.write[1].text)
        /\ ChunkedBody(Bytes(Tail(c.write)), HasLast(c.write))

\* C11: in chunked mode every call of nxt_h1p_request_send prepends the
\* header CRLF, the number n of data bytes in lowercase hexadecimal, CRLF
\* to a chain with n > 0 data bytes and nothing to a chain with none, and
\* puts the terminator CRLF 0 CRLF CRLF where the last marker is, after all
\* data; the header block without its final CRLF followed by the sends is
\* at any time the beginning of a well-formed chunked message, and a whole
\* one with exactly one chunk of size zero, at its end, once the last
\* marker is sent.
C11_ChunkedFraming == [][C11_PerSend]_vars /\ [](C11_Stream)

\* A response of three sends is complete: chunks of 255 and of 265 bytes,
\* the latter of two buffers, then the last marker alone.
C11_Witness ==
    /\ ChunkedResponse
    /\ HasLast(c.write)
    /\ Len(c.write) = 8
    /\ c.write[2].text = <<"\r\n", "ff", "\r\n">>
    /\ c.write[4].text = <<"\r\n", "109", "\r\n">>
    /\ c.write[7].text = <<"\r\n", "0", "\r\n", "\r\n">>

\* The close handler is the handler the reactor called, directly or as the
\* error or the timeout handler; k is its line in the log.
CloseHandlerAt(k) ==
    /\ k \in Logged("h1p conn close")'
    /\ \/ k = 1
       \/ k = 2 /\ log'[1] \in {"h1p conn error", "h1p conn timeout"}

C12_Step ==
    \A k \in {1, 2} :
        CloseHandlerAt(k) =>
            IF c.socket_data # NULL /\ h1p.request # NULL
            THEN \* the error handler of the request gives the request up
                 /\ Len(log') > k
                 /\ log'[k + 1] = "h1p request close"
                 /\ h1p.request \notin DOMAIN reqs'
            ELSE /\ log' = SubSeq(log', 1, k) \o <<"h1p close">>
                 /\ c'.fd = -1
                 /\ c'.write_state = "close"
                 /\ c'.socket_data = NULL

\* Wherever the close handler runs, the next thing done is the request's
\* close or the connection's.
C12_Next ==
    \A i \in Logged("h1p conn close") :
        /\ i < Len(log)
        /\ log[i + 1] \in {"h1p request close", "h1p close"}

\* C12: the close handler of a connection with H1 state and an active
\* request runs the request's error handler, which gives the request up,
\* and does not close the socket itself; without an active request it
\* closes the socket directly and detaches the H1 state from the
\* connection.
C12_CloseHandler == [][C12_Step]_vars /\ [](C12_Next)

\* The peer has closed an idle keepalive connection, which had H1 state and
\* no active request.
C12_Witness ==
    /\ log = <<"h1p conn close", "h1p close">>
    /\ nreq > 0
    /\ c.fd = -1
    /\ c.socket_data = NULL

\* The request's close is the first thing the event does after the line(s)
\* of the reactor's handler: k is its line in the log of the step.
RequestCloseAt(k) ==
    /\ k \in Logged("h1p request close")'
    /\ \/ k = 2 /\ log'[1] \in {"request done", "h1p conn close"}
       \/ k = 3 /\ log'[1] \in {"h1p conn error", "h1p conn timeout"}

\* The buffer nxt_h1p_keepalive reads from next, and its unparsed bytes.
KeepaliveIn == IF c.read # NULL THEN c.read ELSE Head(h1p.buffers)

Unparsed == nxt_buf_mem_used_size(bufs[KeepaliveIn])

C13_Step ==
    \A k \in {2, 3} :
        RequestCloseAt(k) =>
            IF ~h1p.keepalive
            THEN /\ log' = SubSeq(log', 1, k) \o <<"h1p close">>
                 /\ c'.fd = -1
            ELSE /\ Len(log') > k
                 /\ log'[k + 1] = "h1p keepalive"
                 /\ c.read # NULL \/ h1p.buffers # <<>>
                 /\ IF Unparsed = 0
                    THEN /\ Len(log') = k + 1
                         /\ c'.fd # -1
                         /\ nxt_buf_mem_used_size(bufs'[c'.read]) = 0
                         /\ IF read_ready(State)
                            THEN /\ c'.read_state = "read_header"
                                 /\ c'.rd = "read"
                            ELSE /\ c'.read_state = "idle"
                                 /\ c'.rd = "wait"
                    ELSE /\ Len(log') >= k + 3
                         /\ log'[k + 2] = "h1p pipelining"
                         /\ log'[k + 3] = "h1p header parse"

\* C13: when a request closes with keepalive on, a connection without
\* unparsed bytes goes to the Read-Header state and reads at once if the
\* socket is readable, and to the Idle state and waits if it is not; with
\* unparsed bytes the header parser is called before the close returns.
\* With keepalive off the connection is closed.
C13_AfterRequestClose == [][C13_Step]_vars

\* A response is written, its request has closed with keepalive on and no
\* byte left, and the connection waits in the Idle state.
C13_Witness ==
    /\ log = <<"request done", "h1p request close", "h1p keepalive">>
    /\ c.read_state = "idle"
    /\ c.rd = "wait"
    /\ ~read_ready(State)

\* The return codes with which the tokenizer fails.
ParseFailures == {"INVALID", "UNSUPPORTED_VERSION", "TOO_LARGE_FIELD", "ERROR"}

\* The tokenizer has failed with rc in the last event, and the answer is
\* handed to the connection.
ParseFailed(rc) ==
    /\ Logged("http parse request " \o rc) # {}
    /\ HeaderJustSent

\* The tokenizer's failure is the last thing it did in the event, and an
\* answer follows.
ParseFailureAnswered ==
    \A rc \in ParseFailures :
        \A i \in Logged("http parse request " \o rc) :
            /\ i < Len(log)
            /\ log[i + 1] = "h1p request header send"

\* C14 as stated: a tokenizer failure is answered with 400, 414, 431 or 505.
C14_AsStated ==
    \A rc \in ParseFailures :
        ParseFailed(rc) =>
            SentStatusLine \in
                { "HTTP/1.1 400 Bad Request\r\n",
                  "HTTP/1.1 414 URI Too Long\r\n",
                  "HTTP/1.1 431 Request Header Fields Too Large\r\n",
                  "HTTP/1.1 505 HTTP Version Not Supported\r\n" }

\* C14: a tokenizer failure while reading the header is answered according
\* to the tokenizer's return code: 400 for an invalid request, 505 for an
\* unsupported version, 431 for a too large field, and 500 for any other
\* failure; there is no return code that is answered with 414.
C14_ParseFailureStatus ==
    /\ ParseFailureAnswered
    /\ ParseFailed("INVALID") =>
          SentStatusLine = "HTTP/1.1 400 Bad Request\r\n"
    /\ ParseFailed("UNSUPPORTED_VERSION") =>
          SentStatusLine = "HTTP/1.1 505 HTTP Version Not Supported\r\n"
    /\ ParseFailed("TOO_LARGE_FIELD") =>
          SentStatusLine = "HTTP/1.1 431 Request Header Fields Too Large\r\n"
    /\ ParseFailed("ERROR") =>
          SentStatusLine = "HTTP/1.1 500 Internal Server Error\r\n"

\* The tokenizer has refused the version of a request, and the 505 answer
\* is handed to the connection.
C14_Witness ==
    /\ ParseFailed("UNSUPPORTED_VERSION")
    /\ SentStatusLine = "HTTP/1.1 505 HTTP Version Not Supported\r\n"

(***************************************************************************)
(* Properties of the configuration parser and printer.                     *)
(***************************************************************************)
IsString(v) == v.type \in {"SHORT_STRING", "STRING"}

\* Structural equality: strings by content, arrays element by element,
\* objects as multisets of members.
RECURSIVE StructEq(_, _)
StructEq(a, b) ==
    LET SameMember(x, y) ==
            /\ x.name.u = y.name.u
            /\ StructEq(x.value, y.value)
        Count(x, members) ==
            Cardinality({ i \in 1..Len(members) : SameMember(x, members[i]) })
    IN  IF IsString(a) \/ IsString(b)
        THEN IsString(a) /\ IsString(b) /\ a.u = b.u
        ELSE IF a.type # b.type
        THEN FALSE
        ELSE IF a.type = "ARRAY"
        THEN /\ Len(a.u) = Len(b.u)
             /\ \A i \in 1..Len(a.u) : StructEq(a.u[i], b.u[i])
        ELSE IF a.type = "OBJECT"
        THEN /\ Len(a.u) = Len(b.u)
             /\ \A i \in 1..Len(a.u) :
                   Count(a.u[i], a.u) = Count(a.u[i], b.u)
        ELSE a.u = b.u

\* C15: for every value that nxt_conf_json_parse returns for a text, the
\* parse of the compact print of the value returns a value, and that value
\* is structurally equal to the first.
C15_RoundTrip ==
    json.phase = "reparsed"
    => /\ json.again # NoValue
       /\ StructEq(json.again, json.value)

\* An object of three members, one key long, printed and parsed again
\* with the hash in the other order.
C15_Witness ==
    /\ json.phase = "reparsed"
    /\ json.value.type = "OBJECT"
    /\ Len(json.value.u) = 3
    /\ \E i \in 1..3 : json.value.u[i].name.type = "STRING"
    /\ json.env.order = "reverse"
    /\ json.again # json.value

Scalar(v) == v.type \in {"NULL", "BOOLEAN", "SHORT_STRING", "STRING"}

DuplicateKeys(keys) ==
    \E i, j \in 1..Len(keys) : i # j /\ keys[i] = keys[j]

\* C17: a text with an object of which two members have keys that stand
\* for the same content is rejected: nxt_conf_json_parse returns no value,
\* wherever the two members are in the object and however the keys are
\* written and stored.
C17_DuplicateKeys ==
    /\ json.phase = "parsed"
    /\ json.doc.kind = "object"
    /\ DuplicateKeys(json.doc.keys)
    => json.value = NoValue

\* The same for the keys that are written without the digits A to F in a
\* \u escape.
C17_PlainHex ==
    /\ json.phase = "parsed"
    /\ json.doc.kind = "object"
    /\ DuplicateKeys(json.doc.keys)
    /\ \A i \in 1..Len(json.doc.text) : json.doc.text[i] # Ord("A")
    => json.value = NoValue

\* Three members, the first and the last with the same key, one stored
\* short and one long, are rejected.
C17_Witness ==
    /\ json.phase = "parsed"
    /\ json.doc.kind = "object"
    /\ Len(json.doc.keys) = 3
    /\ json.doc.keys[1] = json.doc.keys[3]
    /\ json.doc.keys[1] # json.doc.keys[2]
    /\ Len(json.doc.keys[1]) = 5
    /\ Len(json.doc.text) > 40
    /\ json.env.memory
    /\ json.value = NoValue

\* Decimal digits without the leading zeros.
RECURSIVE Significant(_)
Significant(digits) ==
    IF Len(digits) > 1 /\ Head(digits) = 0
    THEN Significant(Tail(digits))
    ELSE digits

\* x < y for numbers given by their significant decimal digits.
RECURSIVE DecLess(_, _)
DecLess(x, y) ==
    \/ Len(x) < Len(y)
    \/ /\ Len(x) = Len(y)
       /\ x # <<>>
       /\ \/ Head(x) < Head(y)
          \/ Head(x) = Head(y) /\ DecLess(Tail(x), Tail(y))

\* 2^63 - 1 and 2^63 in decimal.
DecInt64Max == Cutoff63 \o <<7>>

DecInt64Min == Cutoff63 \o <<8>>

\* The integer literal of the text is outside [-2^63, 2^63 - 1].
OutsideInt64(doc) ==
    DecLess(IF doc.neg THEN DecInt64Min ELSE DecInt64Max,
            Significant(doc.digits))

\* What the loop over the digits of the literal of the text has done.
DigitsOf(doc, env) ==
    nxt_conf_json_digits(doc.text \o env.after,
                         doc.at + (IF doc.neg THEN 1 ELSE 0),
                         Len(doc.text) + 1, U64(0), 0, FALSE)

\* C18: a text with an integer literal of a value outside
\* [-2^63, 2^63 - 1] is rejected, nxt_conf_json_parse returns no value, and
\* no product of the accumulation has left the 64 bits when the loop over
\* the digits ends.
C18_IntegerRange ==
    json.phase = "parsed" /\ json.doc.kind = "number"
    => /\ OutsideInt64(json.doc) => json.value = NoValue
       /\ ~DigitsOf(json.doc, json.env).wrapped

\* -(2^64 + 7) inside an array of an object is rejected.
C18_Witness ==
    /\ json.phase = "parsed"
    /\ json.doc.kind = "number"
    /\ json.doc.neg
    /\ json.doc.digits = <<1, 8, 4, 4, 6, 7, 4, 4, 0, 7, 3, 7, 0, 9, 5, 5, 1, 6,
                           2, 3>>
    /\ json.doc.at > 2
    /\ json.env.memory
    /\ OutsideInt64(json.doc)
    /\ ~DigitsOf(json.doc, json.env).ok
    /\ json.value = NoValue

\* The text is a string literal that was parsed to a string.
StringParsed ==
    /\ json.doc.kind = "string"
    /\ json.doc.at = 1
    /\ IsString(json.value)

\* The bytes of the literal between the quotes less what its escapes
\* take more than the bytes they stand for: one for an escape of two
\* bytes, three for a \u escape.
RECURSIVE Surplus(_)
Surplus(t) ==
    IF t = <<>> THEN 0
    ELSE IF Head(t) # Ord("\\") THEN Surplus(Tail(t))
    ELSE IF t[2] = Ord("u") THEN 3 + Surplus(SubSeq(t, 7, Len(t)))
    ELSE 1 + Surplus(SubSeq(t, 3, Len(t)))

Estimate(text) == Len(text) - 2 - Surplus(SubSeq(text, 2, Len(text) - 1))

C19_AsStated ==
    json.phase = "parsed" /\ StringParsed
    => (json.value.type = "SHORT_STRING"
           <=> Len(json.doc.bytes) <= NXT_CONF_JSON_STR_SIZE)

\* C19: a string that the parser stores in the Short encoding has at most
\* 14 bytes, so a string of more than 14 bytes is stored in the Long
\* encoding; the encoding is Short exactly when the length of the literal
\* less the surplus of its escapes is at most 14, which for a literal
\* without escapes is its decoded length.  The printed form of a string,
\* and its size, are those of its content in either encoding.
C19_ShortLong ==
    /\ json.phase = "parsed" /\ StringParsed
       => /\ json.value.type = "SHORT_STRING"
             => Len(json.value.u) <= NXT_CONF_JSON_STR_SIZE
          /\ json.value.type = "SHORT_STRING"
             <=> Estimate(json.doc.text) <= NXT_CONF_JSON_STR_SIZE
          /\ Surplus(json.doc.text) = 0
             => /\ json.value.u = json.doc.bytes
                /\ json.value.type = "SHORT_STRING"
                   <=> Len(json.doc.bytes) <= NXT_CONF_JSON_STR_SIZE
    /\ json.phase = "printed" /\ StringParsed
       => \A type \in {"SHORT_STRING", "STRING"} :
             /\ nxt_conf_json_print_value(Value(type, json.value.u),
                                          json.pretty, 0, FALSE).out
                = json.out
             /\ nxt_conf_json_print_value_size(Value(type, json.value.u),
                                               json.pretty, 0)
                = json.size

\* Five \u escapes of one byte each are stored in the Long encoding.
C19_Witness ==
    /\ json.phase = "printed"
    /\ StringParsed
    /\ json.value.type = "STRING"
    /\ Len(json.value.u) = 5
    /\ Len(json.doc.bytes) = 5
    /\ Len(json.out) = 7

\* C20: a string literal is parsed to the bytes it stands for: a \uXXXX
\* escape to the UTF-8 bytes of the code point XXXX, a high surrogate
\* followed by a low surrogate to the UTF-8 bytes of the code point of the
\* pair (F0 9D 84 9E for \uD834\uDD1E).
C20_Unicode ==
    /\ json.phase = "parsed"
    /\ json.doc.kind = "string"
    /\ json.doc.at = 1
    /\ json.env.memory
    => /\ IsString(json.value)
       /\ json.value.u = json.doc.bytes

\* The same for the literals without a digit A to F in an escape.
C20_DecimalDigits ==
    /\ json.phase = "parsed"
    /\ json.doc.kind = "string"
    /\ json.doc.at = 1
    /\ json.env.memory
    /\ \A i \in 1..Len(json.doc.text) :
          json.doc.text[i] \notin Ord("A")..Ord("F")
    => /\ IsString(json.value)
       /\ json.value.u = json.doc.bytes

\* C21: a string literal with a high surrogate (D800-DBFF) that is not
\* followed at once by the \u escape of a low surrogate (DC00-DFFF) is
\* rejected: nxt_conf_json_parse returns no value.
C21_SurrogatePair ==
    json.phase = "parsed" /\ json.doc.kind = "high surrogate"
    => json.value = NoValue

\* The bytes compared with a token that begins with the byte ch.
TokenLength(ch) == IF ch = Ord("f") THEN Len("false") ELSE Len("true")

\* C22: a text that begins with t, f or n is parsed to a value only if it
\* is the token true, false or null, and no byte at or after the end of
\* the text is read when it is compared with the token.
C22_Tokens ==
    json.phase = "parsed" /\ json.doc.kind = "token" /\ json.env.memory
    => /\ json.value # NoValue
          => json.doc.text \in { Str(<<"t", "r", "u", "e">>),
                                 Str(<<"f", "a", "l", "s", "e">>),
                                 Str(<<"n", "u", "l", "l">>) }
       /\ ~nxt_conf_json_literal_past_end(
               1, Len(json.doc.text) + 1, TokenLength(json.doc.text[1]))

(***************************************************************************)
(* Properties of the edits of a configuration.                             *)
(***************************************************************************)
\* The members of an object by name, in their order.
Names(value) == [n \in 1..Len(value.u) |-> value.u[n].name.u]

\* C23: nxt_conf_json_clone_value of a tree under no chain, or under a
\* chain of Pass nodes only, returns a tree structurally equal to the
\* original, with the same members in the same order.
C23_PassChain ==
    json.phase = "passed"
    => /\ json.result # NoValue
       /\ StructEq(json.result, json.tree)
       /\ json.result = json.tree

C23_Witness ==
    /\ json.phase = "passed"
    /\ Len(json.ops) = 2
    /\ json.ops[1].index = 1
    /\ json.tree.type = "OBJECT"
    /\ Len(json.tree.u[2].value.u) = 3
    /\ json.result = json.tree

\* The action of the last node of the chain compiled.
Terminal == json.ops[Len(json.ops)].action

\* C24: when a path that ends in a member the tree does not have is set to
\* a value (Create), and the same path is then deleted in the result, the
\* delete is compiled and applied, and the tree it yields is structurally
\* equal to the tree before the two edits.
C24_CreateDelete ==
    json.phase = "deleted" /\ Terminal = "CREATE"
    => /\ json.rc2 = "OK"
       /\ json.undone # NoValue
       /\ StructEq(json.undone, json.tree)
       /\ json.undone = json.tree

C24_Witness ==
    /\ json.phase = "deleted"
    /\ Terminal = "CREATE"
    /\ Len(json.ops) = 3
    /\ json.value.type = "OBJECT"
    /\ json.result # json.tree
    /\ json.undone = json.tree

\* The components of a path that begins with a slash: the bytes between
\* its slashes and after the last.
RECURSIVE PathKeys(_)
PathKeys(path) ==
    IF path = <<>>
    THEN <<>>
    ELSE LET n == CHOOSE i \in 2..(Len(path) + 1) :
                     /\ i = Len(path) + 1 \/ path[i] = Ord("/")
                     /\ \A j \in 2..(i - 1) : path[j] # Ord("/")
         IN  <<SubSeq(path, 2, n - 1)>> \o PathKeys(SubSeq(path, n, Len(path)))

\* The path is a slash and a component that is not empty, once or more.
WellFormed(path) ==
    /\ path # <<>>
    /\ path[1] = Ord("/")
    /\ \A i \in 1..Len(PathKeys(path)) : PathKeys(path)[i] # <<>>

\* b is a but for the value w at the member the keys ks name: the objects
\* on the way have the same number of members with the same names at the
\* same places, and all other members have the same values.
RECURSIVE SameBut(_, _, _, _)
SameBut(a, b, ks, w) ==
    /\ a.type = "OBJECT"
    /\ b.type = "OBJECT"
    /\ Len(b.u) = Len(a.u)
    /\ \E n \in 1..Len(a.u) :
          /\ a.u[n].name.u = ks[1]
          /\ \A k \in 1..Len(a.u) :
                /\ b.u[k].name = a.u[k].name
                /\ k # n => b.u[k].value = a.u[k].value
          /\ IF Len(ks) = 1
             THEN b.u[n].value = w
             ELSE SameBut(a.u[n].value, b.u[n].value, Tail(ks), w)

\* C25: when a path names a member of the tree and is set to a value w
\* (Replace), the clone is the tree but for the value of that member,
\* which is w: the member keeps its key and its place, every object on the
\* path keeps the number of its members, all else is equal.
C25_Replace ==
    json.phase = "cloned" /\ Terminal = "REPLACE" /\ WellFormed(json.path)
    => /\ json.result # NoValue
       /\ SameBut(json.tree, json.result, PathKeys(json.path), json.value)
       /\ nxt_conf_json_get_value(json.result, json.path) = json.value

C25_Witness ==
    /\ json.phase = "cloned"
    /\ Terminal = "REPLACE"
    /\ Len(json.ops) = 3
    /\ WellFormed(json.path)
    /\ json.value.type = "OBJECT"
    /\ json.result # json.tree
    /\ SameBut(json.tree, json.result, PathKeys(json.path), json.value)

\* The place (from 1) of the first member of the name in an object, 0 when
\* the value is no object or has no such member.
Position(value, name) ==
    IF value.type = "OBJECT"
       /\ \E n \in 1..Len(value.u) : value.u[n].name.u = name
    THEN CHOOSE n \in 1..Len(value.u) :
            /\ value.u[n].name.u = name
            /\ \A k \in 1..(n - 1) : value.u[k].name.u # name
    ELSE 0

\* The chain ops and the code rc are what the keys ks and the new value
\* ask for in the old tree.
RECURSIVE Chosen(_, _, _, _, _)
Chosen(old, ks, value, ops, rc) ==
    IF Len(ks) = 1
    THEN /\ Len(ops) = 1
         /\ CASE value = NoValue /\ Position(old, ks[1]) # 0 ->
                    /\ rc = "OK"
                    /\ ops[1].action = "DELETE"
                    /\ ops[1].index = Position(old, ks[1]) - 1
              [] value = NoValue /\ Position(old, ks[1]) = 0 ->
                    rc = "DECLINED"
              [] value # NoValue /\ Position(old, ks[1]) # 0 ->
                    /\ rc = "OK"
                    /\ ops[1].action = "REPLACE"
                    /\ ops[1].index = Position(old, ks[1]) - 1
                    /\ ops[1].member.value = value
              [] OTHER ->
                    /\ rc = "OK"
                    /\ ops[1].action = "CREATE"
                    /\ ops[1].member.name.u = ks[1]
                    /\ ops[1].member.value = value
    ELSE IF Position(old, ks[1]) = 0
    THEN rc = "DECLINED"
    ELSE /\ Len(ops) >= 2
         /\ ops[1].action = "PASS"
         /\ ops[1].index = Position(old, ks[1]) - 1
         /\ Chosen(old.u[Position(old, ks[1])].value, Tail(ks), value,
                   Tail(ops), rc)

\* C26: nxt_conf_json_op_compile takes the last action from the old tree:
\* for a NULL value Delete when the last component names a member and
\* Declined when it names none; for a value Replace when it names a member
\* and Create, with a new member of that name, when it names none.  It
\* returns Declined when a component before the last names no member, and
\* every component before the last gives a Pass node with the place of its
\* member as index.
C26_Compile ==
    json.phase = "compiled" /\ WellFormed(json.path)
    => Chosen(json.tree, PathKeys(json.path), json.value, json.ops, json.rc)

C26_Witness ==
    /\ json.phase = "compiled"
    /\ WellFormed(json.path)
    /\ json.rc = "OK"
    /\ Len(json.ops) = 3
    /\ json.ops[1].index = 1
    /\ json.ops[2].action = "PASS"
    /\ Terminal = "CREATE"
    /\ Len(json.ops[3].member.name.u) > NXT_CONF_JSON_STR_SIZE

\* The value the keys name in a tree, NoValue when they name none.
RECURSIVE ValueAt(_, _)
ValueAt(value, ks) ==
    IF ks = <<>> THEN value
    ELSE IF Position(value, ks[1]) = 0 THEN NoValue
    ELSE ValueAt(value.u[Position(value, ks[1])].value, Tail(ks))

\* The last component of the path addresses a member of a value that is
\* there and is no object.
IntoNonObject ==
    /\ WellFormed(json.path)
    /\ ValueAt(json.tree,
               SubSeq(PathKeys(json.path), 1, Len(PathKeys(json.path)) - 1))
          .type \notin {"OBJECT", "none"}

Front(ks) == SubSeq(ks, 1, Len(ks) - 1)

\* The path begins with a slash, and a component before the last is empty.
EmptyWithin(path) ==
    /\ path # <<>>
    /\ path[1] = Ord("/")
    /\ \E i \in 1..(Len(PathKeys(path)) - 1) : PathKeys(path)[i] = <<>>

\* The path is a well-formed path and a slash after it.
EmptyAtEnd(path) ==
    /\ Len(path) > 1
    /\ path[Len(path)] = Ord("/")
    /\ WellFormed(SubSeq(path, 1, Len(path) - 1))

\* C28: a path with an empty component is accepted neither by
\* nxt_conf_json_get_value nor by nxt_conf_json_op_compile, but for one
\* empty component at its end, with which the path addresses what it
\* addresses without it; so no edit is compiled whose last node creates,
\* replaces or deletes a member of the empty key for a slash at the end or
\* two slashes in a row.
C28_EmptyComponent ==
    /\ json.phase = "got" /\ EmptyWithin(json.path)
       => json.result = NoValue
    /\ json.phase = "got" /\ EmptyAtEnd(json.path)
       => json.result
          = nxt_conf_json_get_value(json.tree,
                                    SubSeq(json.path, 1, Len(json.path) - 1))
    /\ json.phase = "compiled" /\ EmptyWithin(json.path)
       => json.rc # "OK"
    /\ json.phase = "compiled" /\ EmptyAtEnd(json.path)
       => /\ json.rc
             = nxt_conf_json_op_compile(
                   json.tree, json.value,
                   SubSeq(json.path, 1, Len(json.path) - 1), TRUE).rc
          /\ json.ops
             = nxt_conf_json_op_compile(
                   json.tree, json.value,
                   SubSeq(json.path, 1, Len(json.path) - 1), TRUE).ops

(***************************************************************************)
(* Properties of the HTTP/1 connection, continued.                         *)
(***************************************************************************)
\* The work queue is about to end a request of a connection kept alive.
KeepaliveCalled ==
    /\ wq # <<>>
    /\ Head(wq).h = "done"
    /\ Head(wq).r \in DOMAIN reqs
    /\ h1p.keepalive

\* The state in which nxt_h1p_request_close then calls nxt_h1p_keepalive.
KeepaliveCall ==
    [Log(Log([State EXCEPT !.wq = Tail(@)], "request done"),
         "h1p request close") EXCEPT !.h1p.request = NULL]

\* C29: nxt_h1p_keepalive leaves, before the next request is parsed, the
\* fields of the protocol state before conn zero (no request, no grown
\* buffers, keepalive, chunked and transfer_encoding off, the parser
\* zero), the connection and its protocol state tied as before, and the
\* buffers grown for the header freed but for the one kept as input; and
\* a connection that is open with no request holds nothing
\* of the request before.
C29_KeepaliveReset ==
    /\ KeepaliveCalled
       => \A o \in nxt_h1p_keepalive(KeepaliveCall) :
             /\ o.s.h1p = ZeroH1p
             /\ o.s.c.socket_data = c.socket_data
             /\ \A i \in 1..Len(h1p.buffers) :
                   h1p.buffers[i] # o.s.c.read
                   => o.s.bufs[h1p.buffers[i]].freed
    /\ h1p.request = NULL /\ c.fd # -1 => h1p = ZeroH1p

C29_Witness ==
    /\ KeepaliveCalled
    /\ h1p.chunked
    /\ h1p.nbuffers > 0
    /\ h1p.parser # ZeroParser
    /\ c.read # NULL
    /\ \E o \in nxt_h1p_keepalive(KeepaliveCall) :
          /\ o.call # <<>>
          /\ o.s.h1p = ZeroH1p
          /\ o.s.bufs[h1p.buffers[1]].freed

\* The header buffer while a body is read or held: the input buffer when
\* the body came with the header, else the first of the buffers retained.
HeaderBuf ==
    IF c.read # NULL /\ c.read # reqs[h1p.request].body
    THEN c.read
    ELSE Head(h1p.buffers)

\* The bytes are successive bytes of the stream, the last of them the last
\* byte received.
LastReceived(data) ==
    \A i \in 1..Len(data) : data[i] = rcvd - Len(data) + i

\* The ready handler of the request is in the work queue.
ReadyScheduled(r) ==
    \E i \in 1..Len(wq) : wq[i].h = "ready" /\ wq[i].r = r

\* C30, the body buffer: it is there only for a Content-Length above 0 and
\* within max_body_size and no Transfer-Encoding, its capacity is the
\* Content-Length, and never more than that is in it.
C30_Buffer ==
    \A r \in DOMAIN reqs :
       /\ reqs[r].content_length_n \in {-1, 0} => reqs[r].body = NULL
       /\ reqs[r].body # NULL
          => /\ reqs[r].content_length_n > 0
             /\ reqs[r].content_length_n <= conf.max_body_size
             /\ bufs[reqs[r].body].size = reqs[r].content_length_n
             /\ Len(bufs[reqs[r].body].data) <= reqs[r].content_length_n

\* C30, the bytes: while the request waits for its body or has it, the
\* body buffer and the header buffer hold the bytes received after the
\* header in their order, and the header buffer holds some only when the
\* body buffer is full; the ready handler is scheduled when and only when
\* the body buffer is full.
C30_Bytes ==
    h1p.request # NULL /\ c.fd # -1
    /\ reqs[h1p.request].state = "body" /\ reqs[h1p.request].body # NULL
    => /\ LastReceived(bufs[reqs[h1p.request].body].data
                       \o bufs[HeaderBuf].data)
       /\ bufs[HeaderBuf].data # <<>>
          => nxt_buf_mem_free_size(bufs[reqs[h1p.request].body]) = 0
       /\ ReadyScheduled(h1p.request)
          <=> nxt_buf_mem_free_size(bufs[reqs[h1p.request].body]) = 0

\* C30, no body: a request with no Transfer-Encoding and no
\* Content-Length, or one of 0, has its ready handler scheduled at once,
\* with no body buffer.
C30_NoBody ==
    h1p.request # NULL /\ c.fd # -1
    /\ reqs[h1p.request].state = "body"
    /\ reqs[h1p.request].content_length_n \in {-1, 0}
    => /\ ReadyScheduled(h1p.request)
       /\ reqs[h1p.request].body = NULL

\* C30: for a request with a Content-Length above 0 and within
\* max_body_size and no Transfer-Encoding the body buffer has the capacity
\* Content-Length; the bytes read behind the header, up to Content-Length
\* of them, are moved into it out of the header buffer; the ready handler
\* is scheduled exactly when the buffer is full; no more than
\* Content-Length bytes are taken as body.  With no Content-Length, or one
\* of 0, there is no body buffer and the ready handler is scheduled at
\* once.
C30_BodyRead == C30_Buffer /\ C30_Bytes /\ C30_NoBody

C30_Witness ==
    /\ h1p.request # NULL
    /\ c.fd # -1
    /\ reqs[h1p.request].state = "body"
    /\ reqs[h1p.request].body # NULL
    /\ reqs[h1p.request].content_length_n = 1
    /\ Len(bufs[reqs[h1p.request].body].data) = 1
    /\ Len(bufs[HeaderBuf].data) = 1
    /\ ReadyScheduled(h1p.request)

(***************************************************************************)
(* Properties of the edits of a configuration, continued.                  *)
(***************************************************************************)
\* The members but the one at the place n.
Without(u, n) == SubSeq(u, 1, n - 1) \o SubSeq(u, n + 1, Len(u))

\* The object whose member the path names, before and after the edit.
OldObject == ValueAt(json.tree, Front(PathKeys(json.path)))
NewObject == ValueAt(json.result, Front(PathKeys(json.path)))

\* The compact print of the result.
PrintedResult == nxt_conf_json_print_value(json.result, FALSE, 0, FALSE).out

\* The example of the specification, parsed with the members in the order
\* of the text.
Example ==
    /\ json.text
       = EditObjectText(
             <<<<Str(<<"a">>),
                 EditObjectText(<<<<Str(<<"b">>), Str(<<"1">>)>>,
                                  <<Str(<<"c">>), Str(<<"2">>)>>>>)>>>>)
    /\ json.env.order = "insertion"

\* C31: the object cloned under a Create has one member more than the old
\* one, under a Delete one less, under a Replace as many; the copy writes
\* exactly that many members, none beyond and none left out; the members
\* the edit does not name keep their order and a member created is the
\* last.  {"a":{"b":1,"c":2}} with /a/d set to 4 gives
\* {"a":{"b":1,"c":2,"d":4}}, and with /a/b deleted {"a":{"c":2}}.
C31_Sized ==
    json.phase = "cloned" /\ WellFormed(json.path)
    => /\ nxt_conf_json_copy_value(json.tree, json.ops).rc # "UNDEFINED"
       /\ json.result # NoValue
          => CASE Terminal = "CREATE" ->
                    /\ Len(NewObject.u) = Len(OldObject.u) + 1
                    /\ SubSeq(NewObject.u, 1, Len(OldObject.u)) = OldObject.u
                    /\ NewObject.u[Len(NewObject.u)].name.u
                       = PathKeys(json.path)[Len(PathKeys(json.path))]
                    /\ NewObject.u[Len(NewObject.u)].value = json.value
               [] Terminal = "DELETE" ->
                    /\ Len(NewObject.u) = Len(OldObject.u) - 1
                    /\ NewObject.u
                       = Without(OldObject.u,
                                 Position(OldObject,
                                          PathKeys(json.path)
                                              [Len(PathKeys(json.path))]))
               [] OTHER ->
                    /\ Len(NewObject.u) = Len(OldObject.u)
                    /\ Names(NewObject) = Names(OldObject)
       /\ Example /\ json.path = Str(<<"/", "a", "/", "d">>)
          /\ json.value = Value("INTEGER", <<0, 0, 0, 4>>)
          => PrintedResult
             = Str(<<"{", "\"", "a", "\"", ":", "{", "\"", "b", "\"", ":",
                     "1", ",", "\"", "c", "\"", ":", "2", ",", "\"", "d",
                     "\"", ":", "4", "}", "}">>)
       /\ Example /\ json.path = Str(<<"/", "a", "/", "b">>)
          /\ json.value = NoValue
          => PrintedResult
             = Str(<<"{", "\"", "a", "\"", ":", "{", "\"", "c", "\"", ":",
                     "2", "}", "}">>)

C31_Witness ==
    /\ json.phase = "cloned"
    /\ Example
    /\ json.path = Str(<<"/", "a", "/", "d">>)
    /\ json.value = Value("INTEGER", <<0, 0, 0, 4>>)
    /\ Terminal = "CREATE"
    /\ Len(NewObject.u) = 3

\* C32: every part of the tree that nxt_conf_json_clone_value returns has
\* its storage in the pool passed to it, the value a Create or a Replace
\* puts in included: nothing of it is storage of the value that was passed
\* to nxt_conf_json_op_compile, or of the old tree.
C32_Owned ==
    json.phase = "cloned" /\ json.result # NoValue
    => nxt_conf_json_copy_value_storage(json.tree, json.ops) \subseteq {"pool"}

\* C33: when nxt_conf_json_op_compile returned NXT_OK for a tree, a path and
\* a value and the clone under the chain succeeded,
\* nxt_conf_json_get_value finds that value at the path in the clone; when
\* the value was NULL (a delete), it finds no value at the path there.
C33_Agree ==
    json.phase = "cloned" /\ json.result # NoValue
    => nxt_conf_json_get_value(json.result, json.path) = json.value

\* C34: the buffer nxt_h1p_keepalive takes as c->read is a header buffer of
\* the pool of the connection, never the body buffer of the request that
\* ended, so no byte of a body is parsed as a request: on an open
\* connection c->read is a buffer of the pool of a request only while that
\* request is the one of the connection and the buffer its body buffer.
C34_Adopted ==
    c.fd # -1 /\ c.read # NULL /\ bufs[c.read].pool # 0
    => /\ h1p.request # NULL
       /\ h1p.request \in DOMAIN reqs
       /\ reqs[h1p.request].body = c.read

\* No line of a response header handed to the connection is
\* `Connection: keep-alive`.
NoKeepaliveLine ==
    \A i \in 1..Len(c.write) :
       c.write[i].kind = "header"
       => \A j \in 1..Len(c.write[i].text) : c.write[i].text[j] # connection[2]

\* In one event: the flag goes on only where a header is parsed to its end,
\* from a version that is not 1.0; once the header is complete it does not
\* go on for the same request; and when an HTTP/1.0 request ends, the
\* socket is closed.
KeepaliveStep ==
    /\ h1p'.keepalive /\ ~h1p.keepalive
       => /\ Logged("h1p header parse")' # {}
          /\ h1p'.parser.minor # "0"
    /\ HeaderComplete /\ h1p'.request = h1p.request /\ ~h1p.keepalive
       => ~h1p'.keepalive
    /\ HeaderComplete /\ h1p.parser.minor = "0" /\ h1p'.request # h1p.request
       => c'.fd = -1

\* C35: in every reachable state the keepalive flag is on only for a
\* request of the version 1.1 (the minor digit is not 0); it is set from
\* the parsed version alone and after that only cleared; no response
\* header carries `Connection: keep-alive`; and the connection is not used
\* again after an HTTP/1.0 request.
C35_KeepaliveVersion ==
    /\ [](h1p.keepalive => h1p.request # NULL /\ h1p.parser.minor = "1")
    /\ []NoKeepaliveLine
    /\ [][KeepaliveStep]_vars

\* An HTTP/1.0 request was answered and has ended, and the socket is closed.
C35_Witness ==
    /\ h1p.parser.minor = "0"
    /\ h1p.request = NULL
    /\ ~h1p.keepalive
    /\ c.fd = -1
    /\ log = <<"request done", "h1p request close", "h1p close">>

\* The values within a value, each with the level it is printed at: the
\* elements of an array and the names and values of the members of an
\* object are printed one level deeper.
RECURSIVE Parts(_, _)
Parts(value, level) ==
    {[value |-> value, level |-> level]}
    \cup (CASE value.type = "ARRAY" ->
                  UNION { Parts(value.u[i], level + 1) : i \in 1..Len(value.u) }
            [] value.type = "OBJECT" ->
                  UNION { Parts(value.u[i].name, level + 1)
                          \cup Parts(value.u[i].value, level + 1) :
                            i \in 1..Len(value.u) }
            [] OTHER -> {})

\* C36: for every value and both styles the byte count that
\* nxt_conf_json_print_value returns without a buffer is not below the
\* number of bytes it then writes, so a buffer of that size is not overrun;
\* and so it is for every value within the value at its level, whatever
\* the more_space flag is when it is printed, and for the escaped bytes of
\* every string.
C36_NoOverrun ==
    json.phase = "printed"
    => /\ Len(json.out) <= json.size
       /\ \A p \in Parts(json.value, 0) :
             /\ \A more_space \in BOOLEAN :
                   Len(nxt_conf_json_print_value(p.value, json.pretty, p.level,
                                                 more_space).out)
                   <= nxt_conf_json_print_value_size(p.value, json.pretty,
                                                     p.level)
             /\ p.value.type \in {"SHORT_STRING", "STRING"}
                => Len(nxt_conf_json_escape(p.value.u))
                   <= Len(p.value.u) + nxt_conf_json_escape_size(p.value.u)

\* The least integer the parser yields is printed: twenty bytes are
\* counted and twenty written.
C36_Witness ==
    /\ json.phase = "printed"
    /\ json.value.type = "INTEGER"
    /\ I64Negative(json.value.u)
    /\ json.size = NXT_INT64_T_LEN
    /\ Len(json.out) = NXT_INT64_T_LEN

\* No object of the tree has two members of the same key.
RECURSIVE UniqueKeys(_)
UniqueKeys(value) ==
    CASE value.type = "ARRAY" ->
            \A i \in 1..Len(value.u) : UniqueKeys(value.u[i])
      [] value.type = "OBJECT" ->
            /\ \A i, k \in 1..Len(value.u) :
                  i # k => value.u[i].name.u # value.u[k].name.u
            /\ \A i \in 1..Len(value.u) : UniqueKeys(value.u[i].value)
      [] OTHER -> TRUE

\* C37: when no object of the old tree (and none of the new value) has two
\* members of the same key, and nxt_conf_json_op_compile returned NXT_OK for
\* the path and the value, no object of the cloned tree has two members of
\* the same key.
C37_Unique ==
    /\ json.phase = "cloned"
    /\ json.result # NoValue
    /\ UniqueKeys(json.tree)
    /\ UniqueKeys(json.value)
    => UniqueKeys(json.result)

\* A member was created in an object of three members, within the tree.
C37_Witness ==
    /\ json.phase = "cloned"
    /\ json.result # NoValue
    /\ Terminal = "CREATE"
    /\ Len(json.ops) = 2
    /\ UniqueKeys(json.tree)
    /\ Len(NewObject.u) = 4

\* The value parsed from the integer literal of the text, which is the
\* text, the element of an array or the second element of the array of a
\* member.
IntegerOf(value, at) ==
    CASE at = 1 -> value
      [] at = 2 -> value.u[1]
      [] OTHER -> value.u[1].value.u[2]

\* The int64_t of a sign and decimal digits.
I64Dec(neg, digits) ==
    IF neg THEN U64Neg(U64Dec(digits)) ELSE U64Dec(digits)

\* C38: a text with an integer literal without a leading zero of a value
\* in [-2^63, 2^63 - 1], the two ends included, is accepted, and the value
\* stored for the literal is an integer of exactly that value.
C38_InRange ==
    /\ json.phase = "parsed"
    /\ json.doc.kind = "number"
    /\ json.env.memory
    /\ json.doc.digits = Significant(json.doc.digits)
    /\ ~OutsideInt64(json.doc)
    => /\ json.value # NoValue
       /\ IntegerOf(json.value, json.doc.at)
          = Value("INTEGER", I64Dec(json.doc.neg, json.doc.digits))

\* The values the chain is applied to, each with the rest of the chain: the
\* value itself, and under a Pass the value of the member at its index.
RECURSIVE ChainValues(_, _)
ChainValues(value, ops) ==
    {[value |-> value, ops |-> ops]}
    \cup (IF /\ ops # <<>>
             /\ ops[1].action = "PASS"
             /\ value.type = "OBJECT"
             /\ ops[1].index < Len(value.u)
          THEN ChainValues(value.u[ops[1].index + 1].value, Tail(ops))
          ELSE {})

\* The number of members nxt_conf_json_copy_object is to write.
MemberCount(value, ops) ==
    Len(value.u) + (CASE ops # <<>> /\ ops[1].action = "CREATE" -> 1
                      [] ops # <<>> /\ ops[1].action = "DELETE" -> -1
                      [] OTHER -> 0)

\* C39: for every tree and every chain nxt_conf_json_op_compile returned
\* NXT_OK for, nxt_conf_json_clone_value comes to an end, with a tree or
\* with an error: in every object the chain is applied to the loop ends
\* when exactly count members are written, count the members of the
\* source, one more for a Create and one less for a Delete, and no member
\* at or after the source count is read; every other object of the tree is
\* copied member by member.
C39_Terminates ==
    json.phase = "cloned"
    => /\ nxt_conf_json_copy_value(json.tree, json.ops).rc \in {"OK", "ERROR"}
       /\ \A x \in ChainValues(json.tree, json.ops) :
             x.value.type = "OBJECT"
             => /\ nxt_conf_json_copy_object(x.value, x.ops).rc
                   \in {"OK", "ERROR"}
                /\ nxt_conf_json_copy_object(x.value, x.ops).rc = "OK"
                   => Len(nxt_conf_json_copy_object(x.value, x.ops).value.u)
                      = MemberCount(x.value, x.ops)
       /\ \A p \in Parts(json.tree, 0) :
             p.value.type = "OBJECT"
             => nxt_conf_json_copy_object(p.value, <<>>)
                = Copied("OK", p.value)

\* The only member of an object two levels down is deleted: the loop of
\* that object ends with no member written.
C39_Witness ==
    /\ json.phase = "cloned"
    /\ json.result # NoValue
    /\ Len(json.ops) = 3
    /\ Terminal = "DELETE"
    /\ \E x \in ChainValues(json.tree, json.ops) :
          /\ Len(x.ops) = 1
          /\ Len(x.value.u) = 1
          /\ nxt_conf_json_copy_object(x.value, x.ops)
             = Copied("OK", Value("OBJECT", <<>>))

====
